---- MODULE Spec2Model ----
(***************************************************************************)
(* Model of the two-direction matching engine of the talent-manager portal *)
(* (backend/app/ai/recommend_client_for_project_need): qualification       *)
(* parsing, eligibility filter, vector retrieval, ranker, result caches,   *)
(* reverse pipeline and the backfill batch.                                *)
(*                                                                         *)
(* Conventions                                                             *)
(*  - text that the code parses (qualification labels) is a sequence of    *)
(*    one-character strings, so startswith/endswith/strip are computed;    *)
(*  - SQL booleans are three-valued: T3, F3, N3 (NULL); a WHERE clause     *)
(*    keeps the rows whose condition is T3;                                *)
(*  - a nullable column holds its NULL marker (NullStr, NullTxt, NullLvl,  *)
(*    N3);                                                                 *)
(*  - writer_level (a Float column) is held in half points: Lv(6) is 6.0   *)
(*    and Lv(6) - 1 is 5.5.                                                *)
(***************************************************************************)
EXTENDS Integers, Sequences, FiniteSets, TLC

VARIABLES
    creatives,                      \* table creatives: id -> row
    projects,                       \* table projects: id -> row
    project_needs,                  \* table project_needs: id -> row
    sub_feedback,                   \* outreach to a project's staffing joined with its feedback
    creative_embeddings,            \* table creative_embeddings: creative_id -> vector
    creative_project_roles,         \* table creative_project_roles: the credits, as rows
    need_embeddings,                \* table need_embeddings: need_id -> vector
    need_recommendations,           \* committed rows of the forward cache
    creative_need_recommendations,  \* committed rows of the reverse cache
    clock,                          \* the database's now()
    session,                        \* the request's SQLAlchemy session
    batch,                          \* the frame of the running backfill_needs call
    runs,                           \* history: what the runs of each key and request returned
    args,                           \* arguments of the call of a pure function
    ret                             \* <<v>> once that call returned v, <<>> before

vars == <<creatives, projects, project_needs, sub_feedback, creative_embeddings,
          creative_project_roles, need_embeddings, need_recommendations, creative_need_recommendations,
          clock, session, batch, runs, args, ret>>

store == <<creatives, projects, project_needs, sub_feedback, creative_embeddings,
           creative_project_roles, need_embeddings, need_recommendations, creative_need_recommendations,
           clock, session, batch, runs>>

-----------------------------------------------------------------------------
(* Bounds of the model *)

MaxLevel == 14

-----------------------------------------------------------------------------
(* Text *)

NullStr == <<"NULL">>
NullTxt == "NULL"
NullLvl == -1
None == "None"

T3 == "t"
F3 == "f"
N3 == "null"

W_Writer == <<"W","r","i","t","e","r">>
W_Director == <<"D","i","r","e","c","t","o","r">>
P_Upper == <<"(","U","p","p","e","r",")">>
P_MidUpper == <<"(","M","i","d"," ","-"," ","U","p","p","e","r",")">>
P_Mid == <<"(","M","i","d",")">>
P_LowMid == <<"(","L","o","w"," ","-"," ","M","i","d",")">>
P_Low == <<"(","L","o","w",")">>
P_Lower == <<"(","L","o","w","e","r",")">>
P_LowerMid == <<"(","L","o","w","e","r"," ","-"," ","M","i","d",")">>
P_Any == <<"(","A","n","y",")">>
P_HasDirectedFeature == <<"(","H","a","s"," ","D","i","r","e","c","t","e","d"," ","F","e","a","t","u","r","e",")">>
SP == <<" ">>

L_OWA == <<"O","W","A">>
L_ODA == <<"O","D","A">>
L_WriterAny == W_Writer \o SP \o P_Any
L_WriterUpper == W_Writer \o SP \o P_Upper
L_WriterMidUpper == W_Writer \o SP \o P_MidUpper
L_WriterMid == W_Writer \o SP \o P_Mid
L_WriterLowMid == W_Writer \o SP \o P_LowMid
L_WriterLow == W_Writer \o SP \o P_Low
L_WriterLower == W_Writer \o SP \o P_Lower
L_WriterLowerMid == W_Writer \o SP \o P_LowerMid
L_DirectorAny == W_Director \o SP \o P_Any
L_DirectorFeature == W_Director \o SP \o P_HasDirectedFeature

\* the values the qualifications column takes
QualLabels == {L_OWA, L_ODA, L_WriterAny, L_WriterUpper, L_WriterMidUpper, L_WriterMid,
               L_WriterLowMid, L_WriterLow, L_DirectorAny, L_DirectorFeature}

startswith(s, p) == Len(s) >= Len(p) /\ SubSeq(s, 1, Len(p)) = p

endswith(s, p) == Len(s) >= Len(p) /\ SubSeq(s, Len(s) - Len(p) + 1, Len(s)) = p

RECURSIVE lstrip(_)
lstrip(s) == IF s # <<>> /\ Head(s) = " " THEN lstrip(Tail(s)) ELSE s

RECURSIVE rstrip(_)
rstrip(s) == IF s # <<>> /\ s[Len(s)] = " " THEN rstrip(SubSeq(s, 1, Len(s) - 1)) ELSE s

strip(s) == rstrip(lstrip(s))

-----------------------------------------------------------------------------
(* SQL three-valued logic *)

B3(b) == IF b THEN T3 ELSE F3

Not3(a) == IF a = N3 THEN N3 ELSE IF a = T3 THEN F3 ELSE T3

And3(a, b) == IF a = F3 \/ b = F3 THEN F3 ELSE IF a = N3 \/ b = N3 THEN N3 ELSE T3

Or3(a, b) == IF a = T3 \/ b = T3 THEN T3 ELSE IF a = N3 \/ b = N3 THEN N3 ELSE F3

\* a = b, a <> b on a column whose NULL marker is nul
Eq3(a, b, nul) == IF a = nul \/ b = nul THEN N3 ELSE B3(a = b)

Ne3(a, b, nul) == Not3(Eq3(a, b, nul))

IsTrue(a) == B3(a = T3)

Ge3(x, k) == IF x = NullLvl THEN N3 ELSE B3(x >= k)

Le3(x, k) == IF x = NullLvl THEN N3 ELSE B3(x <= k)

Between3(x, lo, hi) == And3(Ge3(x, lo), Le3(x, hi))

\* a writer_level of x points, in half points
Lv(x) == 2 * x

-----------------------------------------------------------------------------
(* quals.py *)

parse_qualifications(q0) ==
    LET q == strip(IF q0 = NullStr THEN <<>> ELSE q0)
        is_writer == startswith(q, W_Writer)
        band == IF ~is_writer THEN None
                ELSE IF endswith(q, P_Upper) THEN "upper"
                ELSE IF endswith(q, P_MidUpper) THEN "mid_upper"
                ELSE IF endswith(q, P_Mid) THEN "mid"
                ELSE IF endswith(q, P_LowMid) THEN "lower_mid"
                ELSE IF endswith(q, P_Low) THEN "lower"
                ELSE None
    IN [is_writer |-> is_writer,
        is_director |-> startswith(q, W_Director),
        require_feature |-> endswith(q, P_HasDirectedFeature),
        writer_band |-> band]

-----------------------------------------------------------------------------
(* candidates.py *)

\* the band disjunction of the WHERE clause (lines 17-21)
BandCond(band, level) ==
    Or3(And3(Eq3(band, "upper", None), Ge3(level, Lv(6))),
    Or3(And3(Eq3(band, "mid_upper", None), Ge3(level, Lv(3))),
    Or3(And3(Eq3(band, "mid", None), Between3(level, Lv(3), Lv(6))),
    Or3(And3(Eq3(band, "lower_mid", None), Le3(level, Lv(6))),
        And3(Eq3(band, "lower", None), Le3(level, Lv(4)))))))

\* the WHERE clause for creative row c joined with project row p
CandidateWhere(c, p, quals) ==
    And3(Eq3(c.client_status, "client", NullTxt),
    And3(Or3(Ne3(p.media_type, "TV Series", NullTxt), IsTrue(c.tv_acceptable)),
    And3(Or3(Not3(B3(quals.is_director)), IsTrue(c.is_director)),
    And3(Or3(Not3(B3(quals.require_feature)), IsTrue(c.has_directed_feature)),
    And3(Or3(Not3(B3(quals.is_writer)), IsTrue(c.is_writer)),
         Or3(Not3(B3(quals.is_writer)), BandCond(quals.writer_band, c.writer_level)))))))

\* the rows of the query, as a set: nothing downstream reads their order
get_filtered_candidates(need_id, quals) ==
    IF need_id \notin DOMAIN project_needs
       \/ project_needs[need_id].project_id \notin DOMAIN projects
    THEN {}
    ELSE LET p == projects[project_needs[need_id].project_id]
         IN {[creative_id |-> cid, availability |-> creatives[cid].availability] :
                cid \in {x \in DOMAIN creatives : CandidateWhere(creatives[x], p, quals) = T3}}

-----------------------------------------------------------------------------
(* rank.py *)

TopK == 10

HonorableMax == 5

Get(map, key, default) == IF key \in DOMAIN map THEN map[key] ELSE default

NoFeedback == [any_positive |-> FALSE, any_non_positive |-> FALSE,
               has_subs_to_staffing |-> FALSE, has_subs_no_feedback |-> FALSE,
               events |-> {}]

Min(a, b) == IF a < b THEN a ELSE b

Take(s, n) == SubSeq(s, 1, IF Len(s) < n THEN Len(s) ELSE n)

Drop(s, n) == SubSeq(s, n + 1, Len(s))

\* r goes after every row whose score is at least its own: list.sort(reverse=True) is stable
RECURSIVE InsertDesc(_, _)
InsertDesc(sorted, r) ==
    IF sorted = <<>> THEN <<r>>
    ELSE IF Head(sorted).score >= r.score THEN <<Head(sorted)>> \o InsertDesc(Tail(sorted), r)
    ELSE <<r>> \o sorted

\* a sort that puts r before the rows of equal score: ties come out reversed
RECURSIVE InsertDescTiesFirst(_, _)
InsertDescTiesFirst(sorted, r) ==
    IF sorted = <<>> THEN <<r>>
    ELSE IF Head(sorted).score > r.score
         THEN <<Head(sorted)>> \o InsertDescTiesFirst(Tail(sorted), r)
    ELSE <<r>> \o sorted

RECURSIVE SortFromTiesFirst(_, _, _)
SortFromTiesFirst(rows, i, acc) ==
    IF i > Len(rows) THEN acc
    ELSE SortFromTiesFirst(rows, i + 1, InsertDescTiesFirst(acc, rows[i]))

SortByScoreDescUnstable(rows) == SortFromTiesFirst(rows, 1, <<>>)

RECURSIVE SortFrom(_, _, _)
SortFrom(rows, i, acc) ==
    IF i > Len(rows) THEN acc ELSE SortFrom(rows, i + 1, InsertDesc(acc, rows[i]))

\* rows.sort(key=lambda x: x["score"], reverse=True)
SortByScoreDesc(rows) == SortFrom(rows, 1, <<>>)

\* the slice taken one row early: rows[9:]
HonorableOffByOne(rows) ==
    Take(SelectSeq(Drop(rows, TopK - 1), LAMBDA r : r.feedback_summary.any_positive),
         HonorableMax)

\* [r for r in rows[10:] if r["feedback_summary"]["any_positive"]][:5]
Honorable(rows) ==
    Take(SelectSeq(Drop(rows, TopK), LAMBDA r : r.feedback_summary.any_positive), HonorableMax)

\* a score that adds a point for positive feedback
RankRowBoosted(r, availability_map, feedback_map) ==
    [creative_id |-> r.creative_id,
     score |-> r.sim + (IF Get(feedback_map, r.creative_id, NoFeedback).any_positive
                        THEN 1 ELSE 0),
     sim |-> r.sim,
     availability |-> Get(availability_map, r.creative_id, None),
     feedback_summary |-> Get(feedback_map, r.creative_id, NoFeedback)]

RankRow(r, availability_map, feedback_map) ==
    [creative_id |-> r.creative_id,
     score |-> r.sim,
     sim |-> r.sim,
     availability |-> Get(availability_map, r.creative_id, None),
     feedback_summary |-> Get(feedback_map, r.creative_id, NoFeedback)]

rank_with_flags(knn_rows, availability_map, feedback_map) ==
    LET rows == SortByScoreDesc([i \in 1..Len(knn_rows) |->
                                    RankRow(knn_rows[i], availability_map, feedback_map)])
    IN [top10 |-> Take(rows, TopK), honorable |-> Honorable(rows)]

-----------------------------------------------------------------------------
(* database.py: the session of a request                                   *)
(*                                                                         *)
(* db = [committed, tx, aborted, clock]: the committed tables the engine   *)
(* writes, the session's uncommitted view of them (<<>> when it has written*)
(* nothing since its last commit), whether its transaction is aborted (a   *)
(* statement failed: every later statement fails until a rollback), and    *)
(* now().                                                                  *)

ViewOf(db) == IF db.tx = <<>> THEN db.committed ELSE db.tx[1]

Write(db, view) == [db EXCEPT !.tx = <<view>>]

\* COMMIT ends an aborted transaction as a rollback
commit(db) ==
    IF db.aborted THEN [db EXCEPT !.tx = <<>>, !.aborted = FALSE]
    ELSE [db EXCEPT !.committed = ViewOf(db), !.tx = <<>>]

rollback(db) == [db EXCEPT !.tx = <<>>, !.aborted = FALSE]

\* db.close() at the end of the request (get_db)
close(db) == rollback(db)

\* a statement raised a database error inside the transaction
StatementFailed(db) == [db EXCEPT !.aborted = TRUE]

-----------------------------------------------------------------------------
(* cache.py *)

EmptyParams == <<>>

\* an INSERT without the ON CONFLICT clause, on a table without the unique key
InsertOnly(rows, need_id, params, results, now) ==
    rows \cup {[need_id |-> need_id, params_json |-> params,
                results_json |-> results, run_started_at |-> now]}

\* INSERT ... ON CONFLICT (need_id, params_json) DO NOTHING
InsertIfAbsent(rows, need_id, params, results, now) ==
    IF \E r \in rows : r.need_id = need_id /\ r.params_json = params
    THEN rows
    ELSE rows \cup {[need_id |-> need_id, params_json |-> params,
                     results_json |-> results, run_started_at |-> now]}

\* INSERT ... ON CONFLICT (need_id, params_json) DO UPDATE
UPSERT(rows, need_id, params, results, now) ==
    IF \E r \in rows : r.need_id = need_id /\ r.params_json = params
    THEN {IF r.need_id = need_id /\ r.params_json = params
          THEN [r EXCEPT !.results_json = results, !.run_started_at = now]
          ELSE r : r \in rows}
    ELSE rows \cup {[need_id |-> need_id, params_json |-> params,
                     results_json |-> results, run_started_at |-> now]}

Execute_UPSERT(db, need_id, params, results) ==
    LET v == ViewOf(db)
    IN [Write(db, [v EXCEPT !.nr = UPSERT(v.nr, need_id, params, results, db.clock + 1)])
            EXCEPT !.clock = db.clock + 1]

\* the write left uncommitted
upsert_result_nocommit(db, need_id, params, results) ==
    Execute_UPSERT(db, need_id, params, results)

upsert_result(db, need_id, params, results) ==
    commit(Execute_UPSERT(db, need_id, params, results))

\* the rows of need_id, newest first; ties in run_started_at cannot occur
get_latest_result(db, need_id) ==
    LET mine == {r \in ViewOf(db).nr : r.need_id = need_id}
    IN IF mine = {} THEN None
       ELSE (CHOOSE r \in mine : \A o \in mine : o.run_started_at <= r.run_started_at).results_json

-----------------------------------------------------------------------------
(* embeddings.py, project_context.py *)

\* The vector space, abstracted to NVec directions on a line: the cosine
\* distance a <=> b of two stored (non-zero) vectors is |a - b|, in 0..2.
NVec == 3

Vectors == 1..NVec

CosineDistance(a, b) == IF a >= b THEN a - b ELSE b - a

\* what the provider returns for a text, and the hash-derived fallback
ProviderVector(text) == ((text - 1) % NVec) + 1

FallbackVector(text) == (text % NVec) + 1

\* for attempt in range(5)
EmbedAttempts == 5

\* def embed_texts(texts, batch_size: int = 96, ...)
DefaultBatchSize == 96

\* lines 33-36: one vector per text of the chunk, as the provider returned them
\* sleep = min(2 ** attempt, 8)
SleepCap == 8

\* the loop that goes on calling after a success
AttemptsNoBreak(attempt, failed) ==
    [k \in 1..EmbedAttempts |->
        [ok |-> k - 1 >= failed,
         sleep |-> IF k - 1 < failed THEN Min(2 ^ (k - 1), SleepCap) ELSE 0]]

\* for attempt in range(5), from attempt on: the provider is called; a call
\* that raises is followed by a sleep, a call that returns ends the loop
\* (failed: how many calls for the batch raise)
RECURSIVE Attempts(_, _)
Attempts(attempt, failed) ==
    IF attempt >= EmbedAttempts THEN <<>>
    ELSE IF attempt < failed
    THEN <<[ok |-> FALSE, sleep |-> Min(2 ^ attempt, SleepCap)]>>
            \o Attempts(attempt + 1, failed)
    ELSE <<[ok |-> TRUE, sleep |-> 0]>>

ProviderChunk(chunk) == [k \in 1..Len(chunk) |-> ProviderVector(chunk[k])]

\* one fallback vector for the whole chunk
FallbackOncePerChunk(chunk) == <<FallbackVector(chunk[1])>>

\* lines 43-53: for idx, t in enumerate(chunk): the hash-derived vector of t
FallbackChunk(chunk) == [k \in 1..Len(chunk) |-> FallbackVector(chunk[k])]

\* the loop of lines 27-54 from offset i (0-based), batch b. failures[b] is
\* the number of attempts of batch b that raise RateLimitError,
\* APITimeoutError or APIError before one succeeds: after EmbedAttempts of
\* them no attempt is left and the fallback is appended
RECURSIVE EmbedFrom(_, _, _, _, _)
EmbedFrom(texts, i, batch_size, failures, b) ==
    IF i >= Len(texts) THEN <<>>
    ELSE LET chunk == SubSeq(texts, i + 1, Min(i + batch_size, Len(texts)))
         IN (IF failures[b] < EmbedAttempts THEN ProviderChunk(chunk) ELSE FallbackChunk(chunk))
            \o EmbedFrom(texts, i + batch_size, batch_size, failures, b + 1)

embed_texts(texts, batch_size, failures) == EmbedFrom(texts, 0, batch_size, failures, 1)

\* the provider calls and sleeps of embed_texts, batch by batch
RECURSIVE EmbedCalls(_, _, _, _, _)
EmbedCalls(texts, i, batch_size, failures, b) ==
    IF i >= Len(texts) THEN <<>>
    ELSE <<Attempts(0, failures[b])>>
            \o EmbedCalls(texts, i + batch_size, batch_size, failures, b + 1)

\* the provider as one call of the pipeline meets it: it answers the first
\* attempt, or it fails every attempt
ProviderOf(provider_ok) == <<IF provider_ok THEN 0 ELSE EmbedAttempts>>

\* v_project_context: the text of a project is identified by its context id
build_text(project_id) ==
    IF project_id \in DOMAIN projects THEN projects[project_id].context ELSE 0

\* hashlib.sha256 of the text, taken to be injective
sha256(text) == text

Execute_EMB_UPSERT(db, need_id, vec, h) ==
    LET v == ViewOf(db)
        row == [embedding |-> vec, context_hash |-> h]
    IN Write(db, [v EXCEPT !.ne = [n \in DOMAIN v.ne \cup {need_id} |->
                                      IF n = need_id THEN row ELSE v.ne[n]]])

ensure_need_embedding(db, need_id, project_id, provider_ok) ==
    LET text_blob == build_text(project_id)
        vec == embed_texts(<<text_blob>>, DefaultBatchSize, ProviderOf(provider_ok))[1]
    IN commit(Execute_EMB_UPSERT(db, need_id, vec, sha256(text_blob)))

-----------------------------------------------------------------------------
(* knn.py *)

KnnLimit == 200

Position(seq, x) == CHOOSE i \in 1..Len(seq) : seq[i] = x

\* the members of set in ascending order of key[x], ties in the order of the
\* sequence tie
RECURSIVE SortedBy(_, _, _)
SortedBy(set, key, tie) ==
    IF set = {} THEN <<>>
    ELSE LET first == CHOOSE x \in set : \A y \in set :
                         \/ x = y
                         \/ key[x] < key[y]
                         \/ key[x] = key[y] /\ Position(tie, x) < Position(tie, y)
         IN <<first>> \o SortedBy(set \ {first}, key, tie)

\* the members of found in ascending order of dist from distance d on, rows
\* at equal distance in the order of tie (which lists every member once):
\* SortedBy(found, dist, tie), one pass of tie per distance
RECURSIVE OrderByDistance(_, _, _, _)
OrderByDistance(found, dist, tie, d) ==
    IF d >= NVec THEN <<>>
    ELSE SelectSeq(tie, LAMBDA x : x \in found /\ dist[x] = d)
            \o OrderByDistance(found, dist, tie, d + 1)

\* the query without WHERE ce.creative_id = ANY(:ids)
knn_unfiltered(db, need_id, filtered_ids, tie) ==
    LET ne == ViewOf(db).ne
    IN IF need_id \notin DOMAIN ne THEN <<>>
       ELSE LET found == DOMAIN creative_embeddings
                dist == [cid \in found |->
                            CosineDistance(creative_embeddings[cid], ne[need_id].embedding)]
                ordered == OrderByDistance(found, dist, tie, 0)
            IN [i \in 1..Len(Take(ordered, KnnLimit)) |->
                   [creative_id |-> ordered[i], sim |-> 1 - dist[ordered[i]]]]

\* ORDER BY ce.embed <=> ne.embedding LIMIT 200, over the creatives of ids that
\* have an embedding; rows at equal distance come in the order the database
\* picks (tie, a sequence listing every creative id once)
knn_candidates(db, need_id, filtered_ids, tie) ==
    LET ne == ViewOf(db).ne
    IN IF need_id \notin DOMAIN ne THEN <<>>
       ELSE LET found == filtered_ids \cap DOMAIN creative_embeddings
                dist == [cid \in found |->
                            CosineDistance(creative_embeddings[cid], ne[need_id].embedding)]
                ordered == OrderByDistance(found, dist, tie, 0)
            IN [i \in 1..Len(Take(ordered, KnnLimit)) |->
                   [creative_id |-> ordered[i], sim |-> 1 - dist[ordered[i]]]]

-----------------------------------------------------------------------------
(* project_context.py: the batch rebuilder *)

\* Q_ACTIVE_NEEDS and Q_ACTIVE_NEEDS_MISSING: the active openings of existing
\* projects (those without an embedding row when only_missing), ORDER BY n.id
ActiveNeedRows(db, only_missing) ==
    LET sel == {n \in DOMAIN project_needs :
                   /\ project_needs[n].status = "Active"
                   /\ project_needs[n].project_id \in DOMAIN projects
                   /\ only_missing => n \notin DOMAIN ViewOf(db).ne}
    IN SortedBy(sel, [n \in sel |-> n], <<>>)

\* the loop of rebuild_need_embeddings from row i on: one provider call and
\* one upsert per row (failed: the openings for which the provider fails)
RECURSIVE RebuildFrom(_, _, _, _)
RebuildFrom(db, rows, i, failed) ==
    IF i > Len(rows) THEN db
    ELSE LET text_blob == build_text(project_needs[rows[i]].project_id)
             vec == embed_texts(<<text_blob>>, DefaultBatchSize,
                                ProviderOf(rows[i] \notin failed))[1]
         IN RebuildFrom(Execute_EMB_UPSERT(db, rows[i], vec, sha256(text_blob)),
                        rows, i + 1, failed)

\* limit: <<>> for None, <<k>> for the integer k
rebuild_need_embeddings(db, only_missing, limit, failed) ==
    LET all == ActiveNeedRows(db, only_missing)
        rows == IF limit = <<>> THEN all ELSE Take(all, limit[1])
    IN [db |-> commit(RebuildFrom(db, rows, 1, failed)), count |-> Len(rows)]

-----------------------------------------------------------------------------
(* feedback.py *)

\* sub_feedback holds the rows of the CTE joined: one per outreach of a
\* creative to a staffing contact of a project, with the sentiment of the
\* feedback left on it (NullTxt when none was left)
feedback_rollup(project_id, creative_ids) ==
    [cid \in creative_ids \cap DOMAIN creatives |->
        LET mine == {r \in sub_feedback : r.project_id = project_id /\ r.creative_id = cid}
        IN [any_positive |-> \E r \in mine : r.sentiment = "positive",
            any_non_positive |-> \E r \in mine : r.sentiment = "not positive",
            has_subs_to_staffing |-> mine # {},
            has_subs_no_feedback |-> mine # {} /\ \A r \in mine : r.sentiment = NullTxt,
            events |-> {r.sentiment : r \in {x \in mine : x.sentiment # NullTxt}}]]

-----------------------------------------------------------------------------
(* pipeline.py *)

EMBED_MODEL == "local-stub@1536"

\* the statements of run_pipeline that can raise, in program order: all are
\* database statements, "profile" apart (an error raised while the profiles of
\* enrich are built, outside the try of generate_justification)
FailPoints == {"need", "candidates", "embed", "knn", "feedback", "profile", "upsert"}

Raised(db, where) == [db |-> db, raised |-> where, result |-> [raised |-> where]]

RaisedDb(db, where) == Raised(StatementFailed(db), where)

Returned(db, result) == [db |-> db, raised |-> None, result |-> result]

EmptyResult(need_id) == [need_id |-> need_id, ranked |-> <<>>, honorable_mentions |-> <<>>]

\* enrich: the entry with the text generate_justification returned for it
enrich(entry, just) ==
    [creative_id |-> entry.creative_id, score |-> entry.score, sim |-> entry.sim,
     availability |-> entry.availability, feedback_summary |-> entry.feedback_summary,
     justification |-> just]

\* the result returned without the write to the cache
ReturnWithoutStore(db, need_id, result, ch) == Returned(db, result)

\* lines 22, 30 and 64: upsert_result(db, need_id, {}, result); return result
StoreAndReturn(db, need_id, result, ch) ==
    IF ch.fail = "upsert" THEN RaisedDb(db, "upsert")
    ELSE Returned(upsert_result(db, need_id, EmptyParams, result), result)

\* lines 33-63: the result built from the similarity pool, read from db1
RankedResult(db1, need_id, project_id, quals, cands, ch) ==
    LET filtered_ids == {c.creative_id : c \in cands}
        knn == knn_candidates(db1, need_id, filtered_ids, ch.tie)
        fb_map == feedback_rollup(project_id, {knn[i].creative_id : i \in 1..Len(knn)})
        avail_map == [cid \in filtered_ids |->
                         (CHOOSE c \in cands : c.creative_id = cid).availability]
        ranked == rank_with_flags(knn, avail_map, fb_map)
    IN [need_id |-> need_id,
        model |-> EMBED_MODEL,
        filters |-> [quals |-> quals],
        ranked |-> [i \in 1..Len(ranked.top10) |-> enrich(ranked.top10[i], ch.just)],
        honorable_mentions |->
            [i \in 1..Len(ranked.honorable) |-> enrich(ranked.honorable[i], ch.just)]]

\* the cache row written before the ranking, and again at the end
RankCandidatesStoreFirst(db, need_id, project_id, quals, cands, ch) ==
    LET db0 == upsert_result(db, need_id, EmptyParams, EmptyResult(need_id))
        db1 == ensure_need_embedding(db0, need_id, project_id, ch.provider_ok)
        result == RankedResult(db1, need_id, project_id, quals, cands, ch)
    IN IF ch.fail = "embed" THEN RaisedDb(db0, "embed")
       ELSE IF ch.fail = "knn" THEN RaisedDb(db1, "knn")
       ELSE IF ch.fail = "feedback" THEN RaisedDb(db1, "feedback")
       ELSE IF ch.fail = "profile" THEN Raised(db1, "profile")
       ELSE StoreAndReturn(db1, need_id, result, ch)

\* lines 32-65, the candidate set being non-empty
RankCandidates(db, need_id, project_id, quals, cands, ch) ==
    IF ch.fail = "embed" THEN RaisedDb(db, "embed")
    ELSE
    LET db1 == ensure_need_embedding(db, need_id, project_id, ch.provider_ok)
        result == RankedResult(db1, need_id, project_id, quals, cands, ch)
    IN IF ch.fail = "knn" THEN RaisedDb(db1, "knn")
       ELSE IF ch.fail = "feedback" THEN RaisedDb(db1, "feedback")
       ELSE IF ch.fail = "profile" THEN Raised(db1, "profile")
       ELSE StoreAndReturn(db1, need_id, result, ch)

\* ch = [fail, provider_ok, just, tie]: the statement that raises (None: none
\* does), whether the embedding provider answers, the justification text,
\* and the order in which the database returns rows at equal distance
run_pipeline(db, need_id, ch) ==
    IF db.aborted \/ ch.fail = "need" THEN RaisedDb(db, "need")
    ELSE IF need_id \notin DOMAIN project_needs
    THEN StoreAndReturn(db, need_id, EmptyResult(need_id), ch)
    ELSE
    LET project_id == project_needs[need_id].project_id
        quals == parse_qualifications(project_needs[need_id].qualifications)
        cands == get_filtered_candidates(need_id, quals)
    IN IF ch.fail = "candidates" THEN RaisedDb(db, "candidates")
       ELSE IF cands = {} THEN StoreAndReturn(db, need_id, EmptyResult(need_id), ch)
       ELSE RankCandidates(db, need_id, project_id, quals, cands, ch)

-----------------------------------------------------------------------------
(* creative_need_cache.py *)

\* INSERT ... ON CONFLICT (creative_id, params_json) DO UPDATE
CNR_UPSERT(rows, creative_id, params, results, now) ==
    IF \E r \in rows : r.creative_id = creative_id /\ r.params_json = params
    THEN {IF r.creative_id = creative_id /\ r.params_json = params
          THEN [r EXCEPT !.results_json = results, !.run_started_at = now]
          ELSE r : r \in rows}
    ELSE rows \cup {[creative_id |-> creative_id, params_json |-> params,
                     results_json |-> results, run_started_at |-> now]}

\* db.execute(UPSERT, ...): the caller commits
upsert_results(db, creative_id, params, results) ==
    LET v == ViewOf(db)
    IN [Write(db, [v EXCEPT !.cnr = CNR_UPSERT(v.cnr, creative_id, params, results,
                                               db.clock + 1)])
            EXCEPT !.clock = db.clock + 1]

-----------------------------------------------------------------------------
(* reverse_filters.py *)

MEDIA_ORDER == <<"Feature", "TV Series", "Play", "Other">>

QUAL_ORDER == <<"OWA", "Staff Writer", "ODA", "Director">>

Elems(seq) == {seq[i] : i \in DOMAIN seq}

\* the list as the caller sent it
AsChosen(chosen) == chosen

canonical_media_list(chosen) == SelectSeq(MEDIA_ORDER, LAMBDA m : m \in Elems(chosen))

canonical_qual_list(chosen) == SelectSeq(QUAL_ORDER, LAMBDA q : q \in Elems(chosen))

writer_quals_for_level(level) ==
    IF level = NullLvl THEN <<L_WriterAny, L_WriterLower>>
    ELSE IF level > Lv(6) THEN <<L_WriterAny, L_WriterUpper, L_WriterMidUpper>>
    ELSE IF level = Lv(6) THEN <<L_WriterAny, L_WriterUpper, L_WriterMidUpper, L_WriterMid>>
    ELSE IF level \in {Lv(6) - 1, Lv(5), Lv(5) - 1}
         THEN <<L_WriterAny, L_WriterMidUpper, L_WriterMid, L_WriterLowerMid>>
    ELSE IF level = Lv(4) THEN <<L_WriterAny, L_WriterLower, L_WriterLowerMid, L_WriterMid>>
    ELSE IF level < Lv(4) THEN <<L_WriterAny, L_WriterLower, L_WriterLowerMid>>
    ELSE <<L_WriterAny>>

director_quals(has_feature) ==
    IF has_feature THEN <<L_DirectorAny, L_DirectorFeature>> ELSE <<L_DirectorAny>>

-----------------------------------------------------------------------------
(* reverse_pipeline.py *)

\* every media flag set, whatever the list
_booleans_all_media(media_list) ==
    [mt_feature |-> TRUE, mt_tv |-> TRUE, mt_play |-> TRUE, mt_other |-> TRUE]

_booleans_for_media(media_list) ==
    [mt_feature |-> "Feature" \in Elems(media_list),
     mt_tv |-> "TV Series" \in Elems(media_list),
     mt_play |-> "Play" \in Elems(media_list),
     mt_other |-> "Other" \in Elems(media_list)]

\* n.qualifications::text = ANY(list)
EqAny3(q, list) == IF q = NullStr THEN N3 ELSE B3(q \in Elems(list))

\* p.media_type NOT IN ('Feature','TV Series','Play')
NotInMedia3(m) == IF m = NullTxt THEN N3 ELSE B3(m \notin {"Feature", "TV Series", "Play"})

\* the WHERE clause of base (lines 41-54) for need row n joined with project row p
RankWhere(n, p, params) ==
    And3(Eq3(n.status, "Active", NullTxt),
    And3(Or3(B3(params.include_archived), Ne3(p.tracking_status, "Archived", NullTxt)),
    And3(Or3(And3(B3(params.mt_feature), Eq3(p.media_type, "Feature", NullTxt)),
         Or3(And3(B3(params.mt_tv), Eq3(p.media_type, "TV Series", NullTxt)),
         Or3(And3(B3(params.mt_play), Eq3(p.media_type, "Play", NullTxt)),
             And3(B3(params.mt_other), NotInMedia3(p.media_type))))),
         Or3(And3(B3(params.q_owa), Eq3(n.qualifications, L_OWA, NullStr)),
         Or3(And3(B3(params.q_oda), Eq3(n.qualifications, L_ODA, NullStr)),
         Or3(And3(B3(params.q_staff), EqAny3(n.qualifications, params.writer_qual_list)),
             And3(B3(params.q_dir), EqAny3(n.qualifications, params.director_qual_list))))))))

\* the need ids of base: the joins of lines 37-40 and the WHERE clause
RankBase(db, params) ==
    IF params.cid \notin DOMAIN creative_embeddings THEN {}
    ELSE {n \in DOMAIN project_needs \cap DOMAIN ViewOf(db).ne :
             /\ project_needs[n].project_id \in DOMAIN projects
             /\ RankWhere(project_needs[n], projects[project_needs[n].project_id], params) = T3}

\* 1 - (ne.embedding <=> ce.embed)
RankSim(db, cid, n) ==
    1 - CosineDistance(ViewOf(db).ne[n].embedding, creative_embeddings[cid])

RankRowOf(db, cid, n) ==
    [need_id |-> n, project_id |-> project_needs[n].project_id,
     media_type |-> projects[project_needs[n].project_id].media_type,
     need_qual |-> project_needs[n].qualifications, sim |-> RankSim(db, cid, n)]

\* a DISTINCT ON that keeps the last row of each project instead of the first
Q_RANK_KeepLast(db, params, tie) ==
    LET base == RankBase(db, params)
        pids == {project_needs[n].project_id : n \in base}
        best(pid) == LET mine == {n \in base : project_needs[n].project_id = pid}
                         ordered == SortedBy(mine, [n \in mine |-> 0 - RankSim(db, params.cid, n)],
                                             tie)
                     IN ordered[Len(ordered)]
        ordered_pids == SortedBy(pids, [x \in pids |-> x], <<>>)
    IN [i \in 1..Len(ordered_pids) |-> RankRowOf(db, params.cid, best(ordered_pids[i]))]

\* SELECT DISTINCT ON (project_id) ... ORDER BY project_id, sim DESC: of each
\* project the first row in that order; the rows of one project at equal sim
\* come in the order the database picks (tie, listing every need id once)
Q_RANK(db, params, tie) ==
    LET base == RankBase(db, params)
        pids == {project_needs[n].project_id : n \in base}
        best(pid) == LET mine == {n \in base : project_needs[n].project_id = pid}
                     IN SortedBy(mine, [n \in mine |-> 0 - RankSim(db, params.cid, n)], tie)[1]
        ordered_pids == SortedBy(pids, [x \in pids |-> x], <<>>)
    IN [i \in 1..Len(ordered_pids) |-> RankRowOf(db, params.cid, best(ordered_pids[i]))]

\* scored.sort(key=lambda x: x["sim"], reverse=True): stable
SortBySimDesc(scored) ==
    LET idx == DOMAIN scored
        order == SortedBy(idx, [i \in idx |-> 0 - scored[i].sim],
                          [i \in 1..Len(scored) |-> i])
    IN [k \in 1..Len(order) |-> scored[order[k]]]

\* an empty ranking that carries no error
ReverseEmptyRanking(creative_id, error) ==
    [creative_id |-> creative_id, ranked |-> <<>>, filters |-> <<>>]

ReverseError(creative_id, error) ==
    [creative_id |-> creative_id, ranked |-> <<>>, filters |-> <<>>, error |-> error]

NoEmbedding == "No client embedding. Update AI Profile first."

ReverseFailPoints == {"core", "exists", "rank", "profile", "upsert"}

\* lines 94-110: the parameters of Q_RANK
rank_params(creative_id, media_canon, quals_canon, include_archived) ==
    _booleans_for_media(media_canon) @@
    [cid |-> creative_id,
     q_owa |-> "OWA" \in Elems(quals_canon),
     q_oda |-> "ODA" \in Elems(quals_canon),
     q_staff |-> "Staff Writer" \in Elems(quals_canon),
     q_dir |-> "Director" \in Elems(quals_canon),
     writer_qual_list |-> writer_quals_for_level(creatives[creative_id].writer_level),
     director_qual_list |-> director_quals(creatives[creative_id].has_directed_feature = T3),
     include_archived |-> include_archived]

\* ch = [fail, just, tie]
run_reverse_pipeline(db, creative_id, media_filter, quals_filter, limit_projects, include_archived, ch) ==
    IF db.aborted \/ ch.fail = "core" THEN RaisedDb(db, "core")
    ELSE IF creative_id \notin DOMAIN creatives
    THEN Returned(db, ReverseError(creative_id, "Creative not found"))
    ELSE IF ch.fail = "exists" THEN RaisedDb(db, "exists")
    ELSE IF creative_id \notin DOMAIN creative_embeddings
    THEN Returned(db, ReverseError(creative_id, NoEmbedding))
    ELSE
    LET media_canon == canonical_media_list(IF media_filter = <<>> THEN MEDIA_ORDER
                                            ELSE media_filter)
        quals_canon == canonical_qual_list(IF quals_filter = <<>> THEN QUAL_ORDER
                                           ELSE quals_filter)
        params == rank_params(creative_id, media_canon, quals_canon, include_archived)
        scored == SortBySimDesc(Q_RANK(db, params, ch.tie))
        top == Take(scored, limit_projects)
        filters == [media_type_filter |-> media_canon,
                    qualifications_filter |-> quals_canon,
                    include_archived |-> include_archived]
        result == [creative_id |-> creative_id,
                   filters |-> filters,
                   ranked |-> [i \in 1..Len(top) |-> top[i] @@ [justification |-> ch.just]],
                   considered_count |-> Len(scored),
                   model |-> "vector-cosine"]
    IN IF ch.fail = "rank" THEN RaisedDb(db, "rank")
       ELSE IF ch.fail = "profile" THEN RaisedDb(db, "profile")
       ELSE IF ch.fail = "upsert" THEN RaisedDb(db, "upsert")
       ELSE Returned(upsert_results(db, creative_id, filters, result), result)

-----------------------------------------------------------------------------
(* The session of the request in flight, and the committed tables *)

DbOf == [committed |-> [nr |-> need_recommendations, ne |-> need_embeddings,
                        cnr |-> creative_need_recommendations],
         tx |-> session.tx, aborted |-> session.aborted, clock |-> clock]

NoSession == [aborted |-> FALSE, tx |-> <<>>]

\* the tables and the session after the statements that led to db
StoreDb(db) ==
    /\ need_recommendations' = db.committed.nr
    /\ need_embeddings' = db.committed.ne
    /\ creative_need_recommendations' = db.committed.cnr
    /\ clock' = db.clock
    /\ session' = [aborted |-> db.aborted, tx |-> db.tx]

world == <<creatives, projects, project_needs, sub_feedback, creative_embeddings,
           creative_project_roles>>

\* every order in which the database may list the creatives
RECURSIVE Orders(_)
Orders(set) ==
    IF set = {} THEN {<<>>}
    ELSE UNION {{<<x>> \o o : o \in Orders(set \ {x})} : x \in set}

Record(history, key, result) ==
    [k \in DOMAIN history \cup {key} |-> IF k = key THEN result ELSE history[k]]

-----------------------------------------------------------------------------
(* The store before any request *)

EmptyStore ==
    /\ sub_feedback = {}
    /\ creative_embeddings = <<>>
    /\ creative_project_roles = {}
    /\ need_embeddings = <<>>
    /\ need_recommendations = {}
    /\ creative_need_recommendations = {}
    /\ clock = 0
    /\ session = NoSession
    /\ batch = [pc |-> "idle"]
    /\ runs = [fwd |-> <<>>, rev |-> <<>>, req |-> <<>>]

-----------------------------------------------------------------------------
(* router.py: the forward endpoints and the backfill batch *)

\* the choices open to one run of the pipeline
Choices(fails, providers, justs, ties) ==
    [fail : fails, provider_ok : providers, just : justs, tie : ties]

\* history: what the runs of key returned (the first, the last, how many)
Note(history, key, result) ==
    Record(history, key,
           IF key \in DOMAIN history
           THEN [history[key] EXCEPT !.result = result, !.n = @ + 1]
           ELSE [first |-> result, result |-> result, n |-> 1])

Frame(pc, payload, before, need_ids, response) ==
    [pc |-> pc, payload |-> payload, remaining_before |-> before, need_ids |-> need_ids,
     i |-> 1, generated |-> 0, errors |-> <<>>, log |-> <<>>, response |-> response]

NoPayload == [tracking_statuses |-> {}, limit |-> 0, dry_run |-> FALSE,
              reprocess_existing |-> FALSE]

\* POST /needs/{need_id}/rank
rank_need(need_id, ch) ==
    \E out \in {run_pipeline(DbOf, need_id, ch)} :
       /\ StoreDb(close(out.db))
       /\ runs' = IF out.raised = None
                  THEN [runs EXCEPT !.fwd = Note(runs.fwd, need_id, out.result)]
                  ELSE runs
       /\ UNCHANGED <<world, batch, args, ret>>

HTTP404 == [status |-> 404]

\* GET /needs/{need_id}/latest: `if not res` is true of None (no row) and of
\* an empty dict
latest_need(db, need_id) ==
    LET res == get_latest_result(db, need_id)
    IN IF (\A r \in ViewOf(db).nr : r.need_id # need_id) \/ DOMAIN res = {}
       THEN HTTP404
       ELSE [status |-> 200, body |-> res]

\* the selection without the test on the forward cache
RemainingNeedsCachedToo(db, ts, reprocess_existing) ==
    {n \in DOMAIN project_needs :
        /\ project_needs[n].status = "Active"
        /\ project_needs[n].project_id \in DOMAIN projects
        /\ \E t \in ts : projects[project_needs[n].project_id].tracking_status = t}

\* the needs _count_remaining counts and the SELECT of backfill_needs lists
RemainingNeeds(db, ts, reprocess_existing) ==
    {n \in DOMAIN project_needs :
        /\ project_needs[n].status = "Active"
        /\ project_needs[n].project_id \in DOMAIN projects
        /\ \E t \in ts : projects[project_needs[n].project_id].tracking_status = t
        /\ reprocess_existing \/ ~\E r \in ViewOf(db).nr : r.need_id = n}

count_remaining(db, ts, reprocess_existing) ==
    Cardinality(RemainingNeeds(db, ts, reprocess_existing))

\* ORDER BY n.id LIMIT :limit
SelectNeeds(db, ts, reprocess_existing, limit) ==
    LET found == RemainingNeeds(db, ts, reprocess_existing)
    IN Take(SortedBy(found, [n \in found |-> n], <<>>), limit)

Summary(payload, processed, generated, before, after) ==
    [processed |-> processed, generated |-> generated, skipped |-> processed - generated,
     remaining_before |-> before, remaining_after |-> after,
     tracking_statuses |-> payload.tracking_statuses, limit |-> payload.limit,
     reprocess_existing |-> payload.reprocess_existing]

Response(summary, needs, errors) == [summary |-> summary, needs |-> needs, errors |-> errors]

\* lines 120-184: count, select, and the early returns
backfill_begin(payload) ==
    LET db == DbOf
        ts == payload.tracking_statuses
        before == count_remaining(db, ts, payload.reprocess_existing)
        need_ids == SelectNeeds(db, ts, payload.reprocess_existing, payload.limit)
    IN /\ batch' =
            IF before = 0
            THEN Frame("returned", payload, 0, <<>>,
                       <<Response(Summary(payload, 0, 0, 0, 0), <<>>, <<>>)>>)
            ELSE IF payload.dry_run
            THEN Frame("returned", payload, before, need_ids,
                       <<Response(Summary(payload, Len(need_ids), 0, before, before),
                                  need_ids, <<>>)>>)
            ELSE Frame("loop", payload, before, need_ids, <<>>)
       /\ UNCHANGED <<world, need_embeddings, need_recommendations,
                      creative_need_recommendations, clock, session, runs, args, ret>>

\* a loop without the try: the first failure ends it
backfill_item_stops(ch) ==
    \E out \in {run_pipeline(DbOf, batch.need_ids[batch.i], ch)} :
    LET nid == batch.need_ids[batch.i]
        ok == out.raised = None
    IN /\ StoreDb(out.db)
       /\ batch' = [batch EXCEPT
                       !.i = IF ok THEN @ + 1 ELSE Len(batch.need_ids) + 1,
                       !.generated = IF ok THEN @ + 1 ELSE @,
                       !.errors = IF ok THEN @
                                  ELSE Append(@, [need_id |-> nid, error |-> out.raised]),
                       !.log = Append(@, [need_id |-> nid, raised |-> out.raised,
                                          result |-> out.result])]
       /\ runs' = IF ok THEN [runs EXCEPT !.fwd = Note(runs.fwd, nid, out.result)] ELSE runs
       /\ UNCHANGED <<world, args, ret>>

\* lines 185-190: one turn of the loop
backfill_item(ch) ==
    \E out \in {run_pipeline(DbOf, batch.need_ids[batch.i], ch)} :
    LET nid == batch.need_ids[batch.i]
        ok == out.raised = None
    IN /\ StoreDb(out.db)
       /\ batch' = [batch EXCEPT
                       !.i = @ + 1,
                       !.generated = IF ok THEN @ + 1 ELSE @,
                       !.errors = IF ok THEN @
                                  ELSE Append(@, [need_id |-> nid, error |-> out.raised]),
                       !.log = Append(@, [need_id |-> nid, raised |-> out.raised,
                                          result |-> out.result])]
       /\ runs' = IF ok THEN [runs EXCEPT !.fwd = Note(runs.fwd, nid, out.result)] ELSE runs
       /\ UNCHANGED <<world, args, ret>>

\* lines 192-210: remaining_after and the response; the count is a statement
\* of the same session, and raises when its transaction is aborted
backfill_end ==
    LET db == DbOf
        p == batch.payload
    IN /\ batch' =
            IF ~p.reprocess_existing /\ db.aborted
            THEN [batch EXCEPT !.pc = "raised"]
            ELSE LET after == IF p.reprocess_existing
                              THEN (IF batch.remaining_before - batch.generated > 0
                                    THEN batch.remaining_before - batch.generated ELSE 0)
                              ELSE count_remaining(db, p.tracking_statuses, FALSE)
                 IN [batch EXCEPT
                        !.pc = "returned",
                        !.response = <<Response(Summary(p, Len(batch.need_ids), batch.generated,
                                                        batch.remaining_before, after),
                                                batch.need_ids, batch.errors)>>]
       /\ StoreDb(close(db))
       /\ UNCHANGED <<world, runs, args, ret>>

\* backfill.py, _fetch_eligible_need_ids: no ORDER BY, the rows come in the
\* order the database picks (order, listing every need id once)
_fetch_eligible_need_ids(db, statuses, limit, order) ==
    LET found == {n \in DOMAIN project_needs :
                     /\ project_needs[n].project_id \in DOMAIN projects
                     /\ \E t \in statuses :
                            projects[project_needs[n].project_id].tracking_status = t
                     /\ ~\E r \in ViewOf(db).nr : r.need_id = n}
    IN Take(SelectSeq(order, LAMBDA n : n \in found), limit)

\* backfill.py, start_backfill: the task is enqueued when there is an id
start_backfill(statuses, limit, order) ==
    LET ids == _fetch_eligible_need_ids(DbOf, statuses, limit, order)
        payload == [tracking_statuses |-> statuses, limit |-> limit, dry_run |-> FALSE,
                    reprocess_existing |-> FALSE]
        response == [enqueued |-> Len(ids), need_ids |-> ids, statuses |-> statuses,
                     limit |-> limit]
    IN /\ batch' = Frame(IF ids = <<>> THEN "done" ELSE "task", payload, 0, ids,
                         <<response>>)
       /\ UNCHANGED <<world, need_embeddings, need_recommendations,
                      creative_need_recommendations, clock, session, runs, args, ret>>

\* backfill.py, _run_backfill_task: one turn of the loop, in the task's session
task_item(ch) ==
    \E out \in {run_pipeline(DbOf, batch.need_ids[batch.i], ch)} :
    LET nid == batch.need_ids[batch.i]
        ok == out.raised = None
    IN /\ StoreDb(IF ok THEN commit(out.db) ELSE rollback(out.db))
       /\ batch' = [batch EXCEPT
                       !.i = @ + 1,
                       !.generated = IF ok THEN @ + 1 ELSE @,
                       !.log = Append(@, [need_id |-> nid, raised |-> out.raised,
                                          result |-> out.result])]
       /\ runs' = IF ok THEN [runs EXCEPT !.fwd = Note(runs.fwd, nid, out.result)] ELSE runs
       /\ UNCHANGED <<world, args, ret>>

\* the end of the with block: the session is closed
task_end ==
    /\ batch' = [batch EXCEPT !.pc = "done"]
    /\ StoreDb(close(DbOf))
    /\ UNCHANGED <<world, runs, args, ret>>

\* router.py, _has_any_credit
_has_any_credit(creative_id) == \E r \in creative_project_roles : r.creative_id = creative_id

\* nightly.py: rebuild_client_embeddings(db, version) has no creative_ids
\* parameter, so the call of router.py lines 459 and 476 raises TypeError
\* before any statement
rebuild_client_embeddings(db, creative_ids) == Raised(db, "TypeError")

\* lines 447-480 of creative_needs_rank, the person having a credit: the
\* filter lists, the optional pre-refresh, the run, and the one retry after a
\* rebuild when the run reports a missing embedding
rank_now(db, creative_id, body, ch) ==
    LET media_list == (IF body.mt_feature THEN <<"Feature">> ELSE <<>>) \o
                      (IF body.mt_tv THEN <<"TV Series">> ELSE <<>>) \o
                      (IF body.mt_play THEN <<"Play">> ELSE <<>>) \o
                      (IF body.mt_other THEN <<"Other">> ELSE <<>>)
        quals_list == (IF body.q_owa THEN <<"OWA">> ELSE <<>>) \o
                      (IF body.q_oda THEN <<"ODA">> ELSE <<>>) \o
                      (IF body.q_staff THEN <<"Staff Writer">> ELSE <<>>) \o
                      (IF body.q_dir THEN <<"Director">> ELSE <<>>)
        db0 == IF body.refresh_embedding
               THEN rebuild_client_embeddings(db, <<creative_id>>).db ELSE db
        first == run_reverse_pipeline(db0, creative_id, media_list, quals_list,
                                      body.limit, body.include_archived, ch)
        rebuilt == rebuild_client_embeddings(first.db, <<creative_id>>)
    IN IF /\ first.raised = None
          /\ "error" \in DOMAIN first.result
          /\ first.result.error = NoEmbedding
          /\ ~body.refresh_embedding
          /\ rebuilt.raised = None
       THEN run_reverse_pipeline(rebuilt.db, creative_id, media_list, quals_list,
                                 body.limit, body.include_archived, ch)
       ELSE first

\* lines 482-485: the commit at the end of the request and the response; a
\* request that raised is closed without a commit
rank_now_end(creative_id, body, out) ==
    IF out.raised # None
    THEN /\ StoreDb(close(out.db))
         /\ UNCHANGED runs
    ELSE /\ StoreDb(close(commit(out.db)))
         /\ runs' = IF "error" \in DOMAIN out.result THEN runs
                    ELSE [runs EXCEPT
                             !.rev = Note(runs.rev, <<creative_id, out.result.filters>>,
                                          out.result),
                             !.req = Record(runs.req, <<creative_id, body>>, out.result)]

\* POST /creatives/{creative_id}/needs/rank
creative_needs_rank(creative_id, body, ch) ==
    /\ UNCHANGED <<world, batch, args, ret>>
    /\ IF ~_has_any_credit(creative_id)
       THEN /\ StoreDb(close(DbOf))
            /\ UNCHANGED runs
       ELSE \E out \in {rank_now(DbOf, creative_id, body, ch)} :
               rank_now_end(creative_id, body, out)

\* router.py, _json_rows: the rows of the person, newest first, LIMIT 100
JsonRowsLimit == 100

_json_rows(db, creative_id) ==
    LET mine == {r \in ViewOf(db).cnr : r.creative_id = creative_id}
    IN Take(SortedBy(mine, [r \in mine |-> 0 - r.run_started_at], <<>>), JsonRowsLimit)

\* the inner _normalize_ranked of creative_needs_lookup: the row rebuilt from
\* the keys it reads (the model's rows carry no project_title)
_normalize_ranked(rows) ==
    [i \in 1..Len(rows) |->
        [need_id |-> rows[i].need_id, project_id |-> rows[i].project_id,
         media_type |-> rows[i].media_type, need_qual |-> rows[i].need_qual,
         sim |-> rows[i].sim, justification |-> rows[i].justification]]

\* router.py line 373: if mt_row == media_canon and qf_row == qual_canon
SameLists(mt_row, media_canon, qf_row, qual_canon, inc_row, include_canon) ==
    mt_row = media_canon /\ qf_row = qual_canon

\* POST /creatives/{creative_id}/needs/lookup: the response. The rows the
\* pipeline writes carry their filters in params_json, so line 367 reads them
\* from there.
creative_needs_lookup(db, creative_id, body) ==
    LET media_canon == canonical_media_list(body.media_type_filter)
        qual_canon == canonical_qual_list(body.qualifications_filter)
        include_canon == body.include_archived
        rows == _json_rows(db, creative_id)
        mt_row(r) == canonical_media_list(r.params_json.media_type_filter)
        qf_row(r) == canonical_qual_list(r.params_json.qualifications_filter)
        inc_row(r) == r.params_json.include_archived
        hits == SelectSeq(rows, LAMBDA r : SameLists(mt_row(r), media_canon, qf_row(r),
                                                     qual_canon, inc_row(r), include_canon))
    IN IF hits = <<>> THEN HTTP404
       ELSE LET r == hits[1]
            IN [status |-> 200,
                body |-> [r.results_json EXCEPT
                             !.ranked = _normalize_ranked(r.results_json.ranked),
                             !.filters = [media_type_filter |-> mt_row(r),
                                          qualifications_filter |-> qf_row(r),
                                          include_archived |-> inc_row(r)]]
                         @@ [run_started_at |-> r.run_started_at]]

-----------------------------------------------------------------------------
(* The world of the pipeline specifications: three clients, two projects,  *)
(* four openings                                                           *)

MaxClock == 3

\* an id no row has
MissingId == 0

MaxLimit == 2

Creative(status, tv, w, d, f, level) ==
    [client_status |-> status, tv_acceptable |-> tv, is_writer |-> w, is_director |-> d,
     has_directed_feature |-> f, writer_level |-> level, availability |-> "available"]

Need(project_id, qualifications, status) ==
    [project_id |-> project_id, qualifications |-> qualifications, status |-> status]

\* the tables the engine reads
TheWorld ==
    /\ creatives = (1 :> Creative("client", T3, T3, F3, N3, Lv(5)) @@
                    2 :> Creative("client", F3, T3, F3, N3, Lv(6)) @@
                    3 :> Creative("client", T3, F3, T3, T3, NullLvl))
    /\ creative_embeddings = (1 :> 1 @@ 2 :> 3 @@ 3 :> 2)
    /\ creative_project_roles = {[creative_id |-> 1, project_id |-> 1],
                                 [creative_id |-> 3, project_id |-> 2]}
    /\ projects = (1 :> [media_type |-> "Feature", tracking_status |-> "Active", context |-> 1] @@
                   2 :> [media_type |-> "TV Series", tracking_status |-> "Tracking", context |-> 2])
    /\ project_needs = (1 :> Need(1, L_WriterMid, "Active") @@
                        2 :> Need(2, L_DirectorAny, "Active") @@
                        3 :> Need(1, L_WriterAny, "Active") @@
                        4 :> Need(1, L_WriterUpper, "Archived") @@
                        5 :> Need(2, L_WriterLow, "Active"))
    /\ sub_feedback = {[project_id |-> 1, creative_id |-> 2, sentiment |-> "positive"],
                       [project_id |-> 1, creative_id |-> 1, sentiment |-> NullTxt]}

\* both caches empty, no request in flight
Fresh ==
    /\ need_recommendations = {}
    /\ creative_need_recommendations = {}
    /\ clock = 0
    /\ session = NoSession
    /\ batch = Frame("idle", NoPayload, 0, <<>>, <<>>)
    /\ runs = [fwd |-> <<>>, rev |-> <<>>, req |-> <<>>]
    /\ args = <<>>
    /\ ret = <<>>

InitWorld == TheWorld /\ need_embeddings = <<>> /\ Fresh

\* the store after rebuild_need_embeddings: every active opening is embedded
InitCache ==
    /\ TheWorld
    /\ need_embeddings =
           [n \in {x \in DOMAIN project_needs : project_needs[x].status = "Active"} |->
               [embedding |-> ProviderVector(build_text(project_needs[n].project_id)),
                context_hash |-> sha256(build_text(project_needs[n].project_id))]]
    /\ Fresh

-----------------------------------------------------------------------------
(* SpecBackfill: the backfill batch, between forward runs *)

DefaultStatuses == {"Active", "Priority Tracking", "Tracking"}

Payloads ==
    [tracking_statuses : {DefaultStatuses, {"Active"}}, limit : 0..MaxLimit,
     dry_run : BOOLEAN, reprocess_existing : BOOLEAN]

\* the creatives in the order of their ids
ById == SortedBy(DOMAIN creatives, [c \in DOMAIN creatives |-> c], <<>>)

BatchChoices == Choices({None} \cup FailPoints, {TRUE}, {"text"}, {ById})

RankNeed ==
    /\ batch.pc = "idle"
    /\ clock < MaxClock
    /\ \E nid \in DOMAIN project_needs :
       \E ch \in Choices({None}, {TRUE}, {"text"}, {ById}) : rank_need(nid, ch)

BackfillBegin ==
    /\ batch.pc = "idle"
    /\ clock < MaxClock
    /\ \E payload \in Payloads : backfill_begin(payload)

BackfillItem ==
    /\ batch.pc = "loop"
    /\ batch.i <= Len(batch.need_ids)
    /\ \E ch \in BatchChoices : backfill_item(ch)

BackfillEnd ==
    /\ batch.pc = "loop"
    /\ batch.i > Len(batch.need_ids)
    /\ backfill_end

\* the needs by ascending and by descending id
NeedOrders ==
    LET up == SortedBy(DOMAIN project_needs, [n \in DOMAIN project_needs |-> n], <<>>)
    IN {up, [i \in 1..Len(up) |-> up[Len(up) + 1 - i]]}

StartBackfill ==
    /\ batch.pc = "idle"
    /\ clock < MaxClock
    /\ \E limit \in 1..MaxLimit : \E order \in NeedOrders :
          start_backfill(DefaultStatuses, limit, order)

TaskItem ==
    /\ batch.pc = "task"
    /\ batch.i <= Len(batch.need_ids)
    /\ \E ch \in BatchChoices : task_item(ch)

TaskEnd ==
    /\ batch.pc = "task"
    /\ batch.i > Len(batch.need_ids)
    /\ task_end

\* the response has left, the batch is over: the next request finds no frame
Return ==
    /\ batch.pc \in {"returned", "raised", "done"}
    /\ batch' = Frame("idle", NoPayload, 0, <<>>, <<>>)
    /\ UNCHANGED <<world, need_embeddings, need_recommendations,
                   creative_need_recommendations, clock, session, runs, args, ret>>

NextBackfill ==
    \/ RankNeed
    \/ BackfillBegin
    \/ BackfillItem
    \/ BackfillEnd
    \/ StartBackfill
    \/ TaskItem
    \/ TaskEnd
    \/ Return

SpecBackfill == InitWorld /\ [][NextBackfill]_vars

-----------------------------------------------------------------------------
(* SpecCache: forward and reverse runs on the two result caches *)

MaxRuns == 2

DefaultLimit == 30

Body(media, quals, limit, refresh_embedding, include_archived) ==
    [mt_feature |-> "Feature" \in media, mt_tv |-> "TV Series" \in media,
     mt_play |-> "Play" \in media, mt_other |-> "Other" \in media,
     q_owa |-> "OWA" \in quals, q_oda |-> "ODA" \in quals,
     q_staff |-> "Staff Writer" \in quals, q_dir |-> "Director" \in quals,
     limit |-> limit, refresh_embedding |-> refresh_embedding,
     include_archived |-> include_archived]

\* the needs in the order of their ids
NeedsById == SortedBy(DOMAIN project_needs, [n \in DOMAIN project_needs |-> n], <<>>)

Reversed(seq) == [i \in 1..Len(seq) |-> seq[Len(seq) + 1 - i]]

ReverseChoices(fails, justs, ties) == [fail : fails, just : justs, tie : ties]

ForwardRank ==
    /\ clock < MaxRuns
    /\ \E nid \in DOMAIN project_needs :
       \E ch \in Choices({None}, BOOLEAN, {"text", "unavailable"}, {ById}) :
          rank_need(nid, ch)

ReverseRank ==
    /\ clock < MaxRuns
    /\ \E cid \in DOMAIN creatives :
       \E quals \in {{}, {"Staff Writer"}, {"Director", "OWA"}} :
       \E include_archived \in BOOLEAN :
       \E ch \in ReverseChoices({None}, {"text", "unavailable"}, {NeedsById}) :
          creative_needs_rank(cid, Body({}, quals, DefaultLimit, FALSE, include_archived), ch)

NextCache == ForwardRank \/ ReverseRank

SpecCache == InitCache /\ [][NextCache]_vars

-----------------------------------------------------------------------------
(* SpecReverse: one reverse run over embedded openings *)

\* the openings whose embedding varies, and the vector of the others
Varied == {1, 2, 4}

\* two persons with credits, one of them without an embedding; three
\* projects, one archived and one without a media type
ReverseWorld ==
    /\ creatives = (1 :> Creative("client", T3, T3, T3, T3, Lv(5)) @@
                    2 :> Creative("client", T3, T3, F3, N3, NullLvl))
    /\ creative_embeddings = (1 :> 2)
    /\ creative_project_roles = {[creative_id |-> 1, project_id |-> 1],
                                 [creative_id |-> 2, project_id |-> 1]}
    /\ projects = (1 :> [media_type |-> "Feature", tracking_status |-> "Active", context |-> 1] @@
                   2 :> [media_type |-> "TV Series", tracking_status |-> "Archived", context |-> 2] @@
                   3 :> [media_type |-> NullTxt, tracking_status |-> "Tracking", context |-> 3])
    /\ project_needs = (1 :> Need(1, L_WriterMid, "Active") @@
                        2 :> Need(1, L_WriterAny, "Active") @@
                        3 :> Need(1, L_DirectorAny, "Active") @@
                        4 :> Need(2, L_OWA, "Active") @@
                        5 :> Need(2, L_WriterUpper, "Active") @@
                        6 :> Need(1, L_WriterMid, "Filled") @@
                        7 :> Need(3, L_WriterAny, "Active"))
    /\ sub_feedback = {}

InitReverse ==
    /\ ReverseWorld
    /\ \E e \in [Varied -> Vectors] : \E missing \in {{}, {2}} :
          need_embeddings =
              [n \in DOMAIN project_needs \ missing |->
                  LET v == IF n \in Varied THEN e[n] ELSE ProviderVector(n)
                  IN [embedding |-> v, context_hash |-> sha256(v)]]
    /\ Fresh

ReverseBodies ==
    {Body(media, quals, limit, FALSE, include_archived) :
        media \in {{}, {"Feature"}, {"TV Series", "Other"}},
        quals \in {{}, {"Staff Writer"}, {"Staff Writer", "Director"}, {"OWA"}},
        limit \in {1, DefaultLimit},
        include_archived \in BOOLEAN}
    \cup {Body({}, {}, DefaultLimit, TRUE, TRUE)}

ReverseRankOnce ==
    /\ clock = 0
    /\ \E cid \in DOMAIN creatives \cup {0} :
       \E body \in ReverseBodies :
       \E ch \in ReverseChoices({None, "rank"}, {"text"}, {NeedsById, Reversed(NeedsById)}) :
          creative_needs_rank(cid, body, ch)

NextReverse == ReverseRankOnce

SpecReverse == InitReverse /\ [][NextReverse]_vars

-----------------------------------------------------------------------------
(* SpecElig: the Eligibility Filter on one opening and one person *)

Levels == {NullLvl} \cup 0..MaxLevel

EligLabels == QualLabels \cup {NullStr, W_Writer, SP \o L_WriterMid \o SP}

CreativeRows ==
    [client_status : {"client", "prospective client", NullTxt},
     tv_acceptable : {T3, F3, N3},
     is_writer : {T3, F3, N3},
     is_director : {T3, F3},
     has_directed_feature : {T3, N3},
     writer_level : Levels,
     availability : {"available"}]

InitElig ==
    /\ EmptyStore
    /\ \E c \in CreativeRows : creatives = (1 :> c)
    /\ \E m \in {"Feature", "TV Series", NullTxt} :
          projects = (1 :> [media_type |-> m, tracking_status |-> "Active"])
    /\ \E q \in EligLabels :
          project_needs = (1 :> [project_id |-> 1, qualifications |-> q, status |-> "Active"])
    /\ args = <<>>
    /\ ret = <<>>

FilterCandidates ==
    /\ args = <<>>
    /\ \E nid \in DOMAIN project_needs :
          /\ args' = <<nid, parse_qualifications(project_needs[nid].qualifications)>>
          /\ ret' = <<get_filtered_candidates(nid, args'[2])>>
    /\ UNCHANGED store

NextElig == FilterCandidates

SpecElig == InitElig /\ [][NextElig]_vars

-----------------------------------------------------------------------------
(* SpecRank: the Ranker on a similarity pool *)

MaxPool == 17

SimSlots == {0, 1, 2}

SimPeriod == Cardinality(SimSlots)

FbSlots == {0, 1, 2, 3}

FbPeriod == Cardinality(FbSlots)

PoolOf(n, simPat) == [i \in 1..n |-> [creative_id |-> i, sim |-> simPat[i % SimPeriod]]]

FeedbackOf(n, fbPat) ==
    [i \in {j \in 1..n : fbPat[j % FbPeriod] # "absent"} |->
        [NoFeedback EXCEPT !.any_positive = (fbPat[i % FbPeriod] = "positive"),
                           !.any_non_positive = (fbPat[i % FbPeriod] = "not positive"),
                           !.has_subs_to_staffing = TRUE]]

AvailabilityOf(n) ==
    [i \in {j \in 1..n : j % 3 # 0} |-> IF i % 3 = 1 THEN "available" ELSE "unavailable"]

InitRank ==
    /\ EmptyStore
    /\ creatives = <<>> /\ projects = <<>> /\ project_needs = <<>>
    /\ \E n \in 0..MaxPool :
       \E simPat \in [SimSlots -> 1..3] :
       \E fbPat \in [FbSlots -> {"positive", "not positive", "absent"}] :
          args = <<PoolOf(n, simPat), AvailabilityOf(n), FeedbackOf(n, fbPat)>>
    /\ ret = <<>>

Rank ==
    /\ ret = <<>>
    /\ ret' = <<rank_with_flags(args[1], args[2], args[3])>>
    /\ UNCHANGED <<store, args>>

NextRank == Rank

SpecRank == InitRank /\ [][NextRank]_vars

-----------------------------------------------------------------------------
(* SpecEmbed: embed_texts on a list of texts, in batches, with a provider  *)
(* that fails some attempts                                                *)

MaxTexts == 3

MaxText == 2

\* the lists of at most n texts
RECURSIVE TextLists(_)
TextLists(n) ==
    IF n = 0 THEN {<<>>}
    ELSE TextLists(n - 1) \cup
         {Append(l, t) : l \in {x \in TextLists(n - 1) : Len(x) = n - 1}, t \in 1..MaxText}

InitEmbed ==
    /\ EmptyStore
    /\ creatives = <<>> /\ projects = <<>> /\ project_needs = <<>>
    /\ \E texts \in TextLists(MaxTexts) :
       \E batch_size \in {1, 2, DefaultBatchSize} :
       \E failures \in [1..MaxTexts -> {0, 1, EmbedAttempts - 1, EmbedAttempts}] :
          args = <<texts, batch_size, failures>>
    /\ ret = <<>>

EmbedTexts ==
    /\ ret = <<>>
    /\ ret' = <<embed_texts(args[1], args[2], args[3]),
                 EmbedCalls(args[1], 0, args[2], args[3], 1)>>
    /\ UNCHANGED <<store, args>>

NextEmbed == EmbedTexts

SpecEmbed == InitEmbed /\ [][NextEmbed]_vars

-----------------------------------------------------------------------------
(* SpecKnn: the candidate filter and the similarity query of one forward run,
   over tables large enough for LIMIT 200 to cut *)

MaxCreatives == 300

\* table sizes: small ones, and ones whose embedded candidates number just
\* under, exactly and over the limit of the query
KnnSizes == {4, 12, MaxCreatives - 10, MaxCreatives - 9, MaxCreatives - 8, MaxCreatives}

\* every nonClient-th creative is not a client, every bare-th has no
\* embedding row, and the vectors go round in runs of length run
KnnCreatives(n, nonClient) ==
    [c \in 1..n |-> Creative(IF c % nonClient = 0 THEN "prospective client" ELSE "client",
                             T3, T3, T3, T3, Lv(5))]

KnnEmbeddings(n, bare, run) ==
    [c \in {x \in 1..n : x % bare # 0} |-> ((c \div run) % NVec) + 1]

InitKnn ==
    /\ \E n \in KnnSizes, nonClient \in {3, 7}, bare \in {2, 5}, run \in {1, 2} :
          /\ creatives = KnnCreatives(n, nonClient)
          /\ creative_embeddings = KnnEmbeddings(n, bare, run)
    /\ \E context \in Vectors :
          projects = (1 :> [media_type |-> "Feature", tracking_status |-> "Active",
                            context |-> context])
    /\ project_needs = (1 :> Need(1, L_DirectorAny, "Active"))
    /\ need_embeddings = <<>>
    /\ sub_feedback = {}
    /\ creative_project_roles = {}
    /\ Fresh

\* run_pipeline from the candidate query to the similarity query: the rows at
\* equal distance come in ascending or in descending order of id
KnnPool ==
    /\ ret = <<>>
    /\ \E need_id \in DOMAIN project_needs, provider_ok \in BOOLEAN, up \in BOOLEAN :
         LET n == Cardinality(DOMAIN creatives)
             tie == [i \in 1..n |-> IF up THEN i ELSE n + 1 - i]
             quals == parse_qualifications(project_needs[need_id].qualifications)
         IN \E cands \in {get_filtered_candidates(need_id, quals)} :
            \E db1 \in {ensure_need_embedding(DbOf, need_id,
                                               project_needs[need_id].project_id,
                                               provider_ok)} :
            \E filtered_ids \in {{c.creative_id : c \in cands}} :
               /\ args' = <<need_id, provider_ok, up>>
               /\ ret' = <<[filtered_ids |-> filtered_ids,
                            knn |-> knn_candidates(db1, need_id, filtered_ids, tie)]>>
               /\ StoreDb(close(db1))
    /\ UNCHANGED <<world, batch, runs>>

NextKnn == KnnPool

SpecKnn == InitKnn /\ [][NextKnn]_vars

-----------------------------------------------------------------------------
(* SpecNeedEmbed: forward runs and batch rebuilds over openings whose
   embedding row is missing, out of date or up to date *)

\* a context id that is the text of no project: the text an opening was
\* embedded from before its project was edited
OldText == 3

UpToDateRow(n) ==
    [embedding |-> ProviderVector(build_text(project_needs[n].project_id)),
     context_hash |-> sha256(build_text(project_needs[n].project_id))]

OutOfDateRow == [embedding |-> ProviderVector(OldText), context_hash |-> sha256(OldText)]

\* openings 1 and 2 have no row, an out-of-date row or an up-to-date row; the
\* other active openings are up to date
InitNeedEmbed ==
    /\ TheWorld
    /\ \E kind \in [{1, 2} -> {"missing", "old", "current"}] :
          need_embeddings =
              [n \in {x \in DOMAIN project_needs :
                         /\ project_needs[x].status = "Active"
                         /\ x \in {1, 2} => kind[x] # "missing"} |->
                  IF n \in {1, 2} /\ kind[n] = "old" THEN OutOfDateRow ELSE UpToDateRow(n)]
    /\ Fresh

\* POST /needs/{need_id}/rank; the provider answers or fails every attempt
EnsureAndRank ==
    /\ clock < MaxRuns
    /\ \E nid \in DOMAIN project_needs :
       \E ch \in Choices({None}, BOOLEAN, {"text"}, {ById}) :
          rank_need(nid, ch)

\* POST /embeddings/needs/rebuild
RebuildNeeds ==
    /\ args = <<>>
    /\ \E only_missing \in BOOLEAN, limit \in {<<>>, <<1>>}, failed \in SUBSET {1, 2} :
       \E out \in {rebuild_need_embeddings(DbOf, only_missing, limit, failed)} :
          /\ StoreDb(close(out.db))
          /\ args' = <<"rebuild", only_missing, limit, failed>>
          /\ ret' = <<[rebuilt |-> out.count, only_missing |-> only_missing,
                       limit |-> limit]>>
    /\ UNCHANGED <<world, batch, runs>>

NextNeedEmbed == EnsureAndRank \/ RebuildNeeds

SpecNeedEmbed == InitNeedEmbed /\ [][NextNeedEmbed]_vars

-----------------------------------------------------------------------------
(* SpecRebuild: rebuild_need_embeddings statement by statement, the call of
   the embedding provider being a step of its own *)

\* the rebuild in flight: where it is, its rows, the row it is at, and the
\* vector the provider call returned for that row
Rebuild(pc, rows, i, vec) == [pc |-> pc, rows |-> rows, i |-> i, vec |-> vec]

\* lines 55-58: the rows are selected
RebuildSelect ==
    /\ batch.pc = "idle"
    /\ \E only_missing \in BOOLEAN, limit \in {<<>>, <<1>>} :
         LET all == ActiveNeedRows(DbOf, only_missing)
             rows == IF limit = <<>> THEN all ELSE Take(all, limit[1])
         IN batch' = Rebuild(IF rows = <<>> THEN "commit" ELSE "calling", rows, 1, <<>>)
    /\ UNCHANGED <<world, need_embeddings, need_recommendations,
                   creative_need_recommendations, clock, session, runs, args, ret>>

\* lines 61-63: embed_texts is called for the row and returns
RebuildCall ==
    /\ batch.pc = "calling"
    /\ \E provider_ok \in BOOLEAN :
         LET text_blob == build_text(project_needs[batch.rows[batch.i]].project_id)
         IN batch' = [batch EXCEPT
                         !.pc = "upsert",
                         !.vec = embed_texts(<<text_blob>>, DefaultBatchSize,
                                             ProviderOf(provider_ok))]
    /\ UNCHANGED <<world, need_embeddings, need_recommendations,
                   creative_need_recommendations, clock, session, runs, args, ret>>

\* lines 64-65: the upsert is executed, and the loop goes on to the next row
RebuildUpsert ==
    /\ batch.pc = "upsert"
    /\ LET nid == batch.rows[batch.i]
           h == sha256(build_text(project_needs[nid].project_id))
       IN StoreDb(Execute_EMB_UPSERT(DbOf, nid, batch.vec[1], h))
    /\ batch' = [batch EXCEPT
                    !.pc = IF batch.i < Len(batch.rows) THEN "calling" ELSE "commit",
                    !.i = @ + 1,
                    !.vec = <<>>]
    /\ UNCHANGED <<world, runs, args, ret>>

\* lines 66-67: db.commit(); return count
RebuildCommit ==
    /\ batch.pc = "commit"
    /\ StoreDb(close(commit(DbOf)))
    /\ batch' = [batch EXCEPT !.pc = "done"]
    /\ args' = <<"rebuild">>
    /\ ret' = <<Len(batch.rows)>>
    /\ UNCHANGED <<world, runs>>

NextRebuild == RebuildSelect \/ RebuildCall \/ RebuildUpsert \/ RebuildCommit

SpecRebuild == InitNeedEmbed /\ [][NextRebuild]_vars

-----------------------------------------------------------------------------
(* embeddings.py _normalize and nightly.py, on vectors with one component:
   a vector is an integer, its norm its absolute value; NaN and infinite
   components are left out *)

\* arr / n, or arr itself when n == 0
_normalize(v) == IF v = 0 THEN 0 ELSE IF v > 0 THEN 1 ELSE 0 - 1

\* a rating as twice its value, None as NoRating; _w gives inv * it ** 2 with
\* 2.5 for a missing rating: eight times that weight
NoRating == 0 - 1

Twice(rating) == IF rating = NoRating THEN 5 ELSE 2 * rating

_w(inv, it) == Twice(inv) * Twice(it) * Twice(it)

RECURSIVE SumOver(_, _)
SumOver(seq, i) == IF i > Len(seq) THEN 0 ELSE seq[i] + SumOver(seq, i + 1)

\* nightly.py lines 52-75 for one client, the texts already embedded (credits:
\* one [ev, inv, it] per credited project, ev the vector embed_texts gave for
\* its line; interests: <<>> or the vector of the joined responses).  The
\* result is five times the wsum of the credits times the vector of line 72,
\* normalized as line 73 does
client_vector(credits, interests) ==
    LET wts == [k \in 1..Len(credits) |-> _w(credits[k].inv, credits[k].it)]
        wsum == IF SumOver(wts, 1) > 0 THEN SumOver(wts, 1) ELSE 1
        cred == SumOver([k \in 1..Len(credits) |-> wts[k] * credits[k].ev], 1)
        vec == (IF credits # <<>> THEN 4 * cred ELSE 0)
               + (IF interests # <<>> THEN interests[1] * wsum ELSE 0)
    IN IF credits = <<>> /\ interests = <<>> THEN 0 ELSE _normalize(vec)

-----------------------------------------------------------------------------
(* SpecClientVec: the vector rebuild_client_embeddings writes for one client *)

MaxCredits == 2

\* the ratings a survey response may carry
Ratings == {NoRating, 1, 2}

\* what the provider may return for a text, before _normalize
RawVectors == {0 - 2, 0, 3}

CreditLines == [raw : RawVectors, inv : Ratings, it : Ratings]

RECURSIVE CreditLists(_)
CreditLists(n) ==
    IF n = 0 THEN {<<>>}
    ELSE CreditLists(n - 1) \cup
         {Append(l, c) : l \in {x \in CreditLists(n - 1) : Len(x) = n - 1}, c \in CreditLines}

InitClientVec ==
    /\ EmptyStore
    /\ creatives = <<>> /\ projects = <<>> /\ project_needs = <<>>
    /\ \E credits \in CreditLists(MaxCredits) :
       \E interests \in {<<>>} \cup {<<r>> : r \in RawVectors} :
          args = <<credits, interests>>
    /\ ret = <<>>

\* lines 62-77: the texts are embedded (embed_texts normalizes what the
\* provider returns) and the row is upserted
ClientVec ==
    /\ ret = <<>>
    /\ LET ev == [k \in 1..Len(args[1]) |-> _normalize(args[1][k].raw)]
           e2 == [k \in 1..Len(args[2]) |-> _normalize(args[2][k])]
           credits == [k \in 1..Len(args[1]) |->
                          [ev |-> ev[k], inv |-> args[1][k].inv, it |-> args[1][k].it]]
       IN ret' = <<[embedded |-> ev \o e2, emb |-> client_vector(credits, e2)]>>
    /\ UNCHANGED <<store, args>>

NextClientVec == ClientVec

SpecClientVec == InitClientVec /\ [][NextClientVec]_vars

-----------------------------------------------------------------------------
(* SpecConcurrent: two requests run the forward pipeline for the same opening
   at once, each in its own session, statement by statement.  A statement
   that writes a row holds the row until its session commits; the other
   session's write of the same row waits, and a committed write is applied
   to the tables as they are then (READ COMMITTED) *)

Procs == {1, 2}

Other(p) == CHOOSE q \in Procs : q # p

\* a request: where it is, the choices of its run, its result, and whether
\* the other request was under way when it began
Request(pc, ch, result, overlap) ==
    [pc |-> pc, ch |-> ch, result |-> result, overlap |-> overlap]

\* the row an earlier run of the opening left in the cache
EarlierRow(need_id) ==
    [need_id |-> need_id, params_json |-> EmptyParams,
     results_json |-> EmptyResult(need_id), run_started_at |-> 0]

InitConcurrent ==
    /\ TheWorld
    /\ need_embeddings =
           [n \in {x \in DOMAIN project_needs : project_needs[x].status = "Active"} |->
               UpToDateRow(n)]
    /\ \E need_id \in DOMAIN project_needs \cup {MissingId}, earlier \in BOOLEAN :
          /\ args = <<need_id>>
          /\ need_recommendations = IF earlier THEN {EarlierRow(need_id)} ELSE {}
    /\ creative_need_recommendations = {}
    /\ clock = 0
    /\ session = NoSession
    /\ runs = [fwd |-> <<>>, rev |-> <<>>, req |-> <<>>]
    /\ batch = [p \in Procs |-> Request("idle", <<>>, <<>>, FALSE)]
    /\ ret = [p \in Procs |-> <<>>]

CandsOf(need_id) ==
    get_filtered_candidates(need_id,
                            parse_qualifications(project_needs[need_id].qualifications))

\* lines 19-30: the opening and its candidates are read; without a row or
\* without candidates the result is the empty one
ConcStart ==
    /\ \E p \in Procs :
       \E ch \in Choices({None}, BOOLEAN, {"text", "unavailable"}, {ById}) :
          /\ batch[p].pc = "idle"
          /\ batch' = [batch EXCEPT ![p] =
                 IF args[1] \notin DOMAIN project_needs \/ CandsOf(args[1]) = {}
                 THEN Request("ranked", <<ch>>, <<EmptyResult(args[1])>>,
                              batch[Other(p)].pc \notin {"idle", "done"})
                 ELSE Request("selected", <<ch>>, <<>>,
                              batch[Other(p)].pc \notin {"idle", "done"})]
    /\ UNCHANGED <<world, need_embeddings, need_recommendations,
                   creative_need_recommendations, clock, session, runs, args, ret>>

\* project_context.py line 32: the upsert of the embedding row is executed,
\* once no other session holds the row
ConcEmbed ==
    /\ \E p \in Procs :
          /\ batch[p].pc = "selected"
          /\ batch[Other(p)].pc # "embedding"
          /\ batch' = [batch EXCEPT ![p].pc = "embedding"]
    /\ UNCHANGED <<world, need_embeddings, need_recommendations,
                   creative_need_recommendations, clock, session, runs, args, ret>>

\* project_context.py line 33: db.commit()
ConcEmbedCommit ==
    /\ \E p \in Procs :
          /\ batch[p].pc = "embedding"
          /\ StoreDb(ensure_need_embedding(DbOf, args[1], project_needs[args[1]].project_id,
                                           batch[p].ch[1].provider_ok))
          /\ batch' = [batch EXCEPT ![p].pc = "embedded"]
    /\ UNCHANGED <<world, runs, args, ret>>

\* lines 33-63: the similarity query reads the embedding row committed last
ConcRank ==
    /\ \E p \in Procs :
          /\ batch[p].pc = "embedded"
          /\ batch' = [batch EXCEPT
                 ![p].pc = "ranked",
                 ![p].result =
                     <<RankedResult(DbOf, args[1], project_needs[args[1]].project_id,
                                    parse_qualifications(project_needs[args[1]].qualifications),
                                    CandsOf(args[1]), batch[p].ch[1])>>]
    /\ UNCHANGED <<world, need_embeddings, need_recommendations,
                   creative_need_recommendations, clock, session, runs, args, ret>>

\* cache.py line 29: the upsert of the cache row is executed, once no other
\* session holds the row
ConcUpsert ==
    /\ \E p \in Procs :
          /\ batch[p].pc = "ranked"
          /\ batch[Other(p)].pc # "writing"
          /\ batch' = [batch EXCEPT ![p].pc = "writing"]
    /\ UNCHANGED <<world, need_embeddings, need_recommendations,
                   creative_need_recommendations, clock, session, runs, args, ret>>

\* cache.py line 30 and pipeline.py lines 22, 30, 65: db.commit(), return result
ConcCommit ==
    /\ \E p \in Procs :
          /\ batch[p].pc = "writing"
          /\ StoreDb(upsert_result(DbOf, args[1], EmptyParams, batch[p].result[1]))
          /\ batch' = [batch EXCEPT ![p].pc = "done"]
          /\ ret' = [ret EXCEPT ![p] = batch[p].result]
    /\ UNCHANGED <<world, runs, args>>

NextConcurrent ==
    ConcStart \/ ConcEmbed \/ ConcEmbedCommit \/ ConcRank \/ ConcUpsert \/ ConcCommit

SpecConcurrent == InitConcurrent /\ [][NextConcurrent]_vars

-----------------------------------------------------------------------------
(* SpecLatest: forward runs, some of which fail, then one get-latest request *)

\* POST /needs/{need_id}/rank on an id that may not exist; the run may fail
\* on the retrieval statement, after the opening's embedding is committed
RankNeedNow ==
    /\ args = <<>>
    /\ clock < MaxRuns
    /\ \E nid \in DOMAIN project_needs \cup {MissingId} :
       \E ch \in Choices({None, "knn"}, BOOLEAN, {"text"}, {ById}) :
          rank_need(nid, ch)

LatestNeed ==
    /\ args = <<>>
    /\ \E nid \in DOMAIN project_needs \cup {MissingId} :
          /\ args' = <<"latest", nid>>
          /\ ret' = <<latest_need(DbOf, nid)>>
    /\ StoreDb(close(DbOf))
    /\ UNCHANGED <<world, batch, runs>>

NextLatest == RankNeedNow \/ LatestNeed

SpecLatest == InitCache /\ [][NextLatest]_vars

-----------------------------------------------------------------------------
(* SpecLookup: reverse rank-now requests and lookups by filter signature *)

\* the request bodies of the rank-now requests: no flag, one flag, and every
\* flag of a kind set
RankBodies ==
    {Body(media, quals, DefaultLimit, FALSE, include_archived) :
        media \in {{}, {"Feature"}, Elems(MEDIA_ORDER)},
        quals \in {{}, {"Staff Writer", "OWA"}},
        include_archived \in BOOLEAN}

\* LookupRequest
LookupBodies ==
    [media_type_filter : {<<>>, <<"Feature">>, MEDIA_ORDER},
     qualifications_filter : {<<>>, <<"Staff Writer", "OWA">>},
     include_archived : BOOLEAN]

\* the store after rebuild_need_embeddings, on the world of the reverse runs
InitLookup ==
    /\ ReverseWorld
    /\ need_embeddings =
           [n \in {x \in DOMAIN project_needs : project_needs[x].status = "Active"} |->
               [embedding |-> ProviderVector(build_text(project_needs[n].project_id)),
                context_hash |-> sha256(build_text(project_needs[n].project_id))]]
    /\ Fresh

\* the rank-now requests come first, then one lookup
ReverseRankNow ==
    /\ args = <<>>
    /\ clock < MaxRuns
    /\ \E cid \in DOMAIN creatives :
       \E body \in RankBodies :
       \E ch \in ReverseChoices({None}, {"text"}, {NeedsById}) :
          creative_needs_rank(cid, body, ch)

Lookup ==
    /\ args = <<>>
    /\ \E cid \in DOMAIN creatives :
       \E body \in LookupBodies :
          /\ args' = <<"lookup", cid, body>>
          /\ ret' = <<creative_needs_lookup(DbOf, cid, body)>>
    /\ StoreDb(close(DbOf))
    /\ UNCHANGED <<world, batch, runs>>

NextLookup == ReverseRankNow \/ Lookup

SpecLookup == InitLookup /\ [][NextLookup]_vars

-----------------------------------------------------------------------------
(* SpecRankNow: one reverse rank-now request and its response *)

RankNowBodies ==
    {Body(media, quals, limit, refresh_embedding, include_archived) :
        media \in {{}, {"Feature"}, {"TV Series", "Other"}},
        quals \in {{}, {"Staff Writer"}, {"Director", "OWA"}},
        limit \in {1, DefaultLimit},
        refresh_embedding \in BOOLEAN,
        include_archived \in BOOLEAN}

\* HTTPException(status_code=400, detail={"code": "NO_CREDITS", ...})
HTTP400 == [status |-> 400, code |-> "NO_CREDITS"]

\* lines 483-486: the body of the response
RankNowResponse(out) ==
    [status |-> 200,
     body |-> [out.result EXCEPT !.ranked = _normalize_ranked(out.result.ranked)]]

\* POST /creatives/{creative_id}/needs/rank, the response kept in ret
RankNow ==
    /\ args = <<>>
    /\ \E cid \in DOMAIN creatives \cup {MissingId} :
       \E body \in RankNowBodies :
       \E ch \in ReverseChoices({None}, {"text"}, {NeedsById}) :
          /\ args' = <<"rank", cid, body>>
          /\ IF ~_has_any_credit(cid)
             THEN /\ StoreDb(close(DbOf))
                  /\ UNCHANGED runs
                  /\ ret' = <<HTTP400>>
             ELSE \E out \in {rank_now(DbOf, cid, body, ch)} :
                     /\ rank_now_end(cid, body, out)
                     /\ ret' = <<RankNowResponse(out)>>
    /\ UNCHANGED <<world, batch>>

NextRankNow == RankNow

SpecRankNow == InitLookup /\ [][NextRankNow]_vars

-----------------------------------------------------------------------------
(* SpecPipeline: one call of a pipeline, forward or reverse, on ids that    *)
(* exist and on one that does not                                           *)

\* filter lists as a caller may send them: any order, with duplicates
MediaFilters ==
    {<<>>, <<"Feature">>, <<"TV Series", "Feature">>, <<"Feature", "TV Series", "Feature">>,
     <<"Other", "Play">>, <<"Other", "Play", "Other">>, <<"Short", "Play">>}

QualFilters ==
    {<<>>, <<"Staff Writer">>, <<"Director", "Staff Writer">>,
     <<"Staff Writer", "Director", "Director">>, <<"OWA">>}

\* run_pipeline(db, need_id), called as rank_need calls it
RunPipeline ==
    /\ args = <<>>
    /\ \E need_id \in DOMAIN project_needs \cup {MissingId} :
       \E ch \in Choices({None}, BOOLEAN, {"text"}, {ById}) :
       \E out \in {run_pipeline(DbOf, need_id, ch)} :
          /\ StoreDb(out.db)
          /\ args' = <<"forward", need_id>>
          /\ ret' = <<out>>
    /\ UNCHANGED <<world, batch, runs>>

\* run_reverse_pipeline(db, creative_id, media_filter, quals_filter, limit_projects,
\* include_archived): the caller has not committed yet
RunReversePipeline ==
    /\ args = <<>>
    /\ \E creative_id \in DOMAIN creatives \cup {MissingId} :
       \E media_filter \in MediaFilters :
       \E quals_filter \in QualFilters :
       \E include_archived \in BOOLEAN :
       \E ch \in ReverseChoices({None, "rank"}, {"text"}, {NeedsById}) :
       \E out \in {run_reverse_pipeline(DbOf, creative_id, media_filter, quals_filter,
                                        DefaultLimit, include_archived, ch)} :
          /\ StoreDb(out.db)
          /\ args' = <<"reverse", creative_id, media_filter, quals_filter, include_archived>>
          /\ ret' = <<out>>
    /\ UNCHANGED <<world, batch, runs>>

NextPipeline == RunPipeline \/ RunReversePipeline

SpecPipeline == InitReverse /\ [][NextPipeline]_vars

-----------------------------------------------------------------------------
(* Claims on the result caches (SpecCache) *)

ForwardRows(nid) ==
    {r \in need_recommendations : r.need_id = nid /\ r.params_json = EmptyParams}

ReverseRows(key) ==
    {r \in creative_need_recommendations :
        r.creative_id = key[1] /\ r.params_json = key[2]}

\* C1: after any number of runs with the same (subject id, canonical parameter
\* set), each cache holds exactly one row for that key, whose payload is the
\* result of the most recent of those runs; no row exists for a key never run.
C1_CacheUpsertIdempotent ==
    /\ \A nid \in DOMAIN runs.fwd :
          /\ Cardinality(ForwardRows(nid)) = 1
          /\ \A r \in ForwardRows(nid) : r.results_json = runs.fwd[nid].result
    /\ \A key \in DOMAIN runs.rev :
          /\ Cardinality(ReverseRows(key)) = 1
          /\ \A r \in ReverseRows(key) : r.results_json = runs.rev[key].result
    /\ Cardinality(need_recommendations) = Cardinality(DOMAIN runs.fwd)
    /\ Cardinality(creative_need_recommendations) = Cardinality(DOMAIN runs.rev)

\* a reverse key run twice, the second run returning another payload than the first
C1_Witness ==
    \E key \in DOMAIN runs.rev :
        /\ runs.rev[key].n = 2
        /\ runs.rev[key].result # runs.rev[key].first
        /\ runs.rev[key].result.ranked # <<>>

ZeroCandidates(nid) ==
    get_filtered_candidates(nid, parse_qualifications(project_needs[nid].qualifications)) = {}

\* C10: a forward run on an opening whose eligibility predicate matches nobody
\* returns an empty ranked list and an empty honorable-mentions list, and the
\* cache row of the opening holds exactly that result.
C10_ZeroCandidatesEmptyResultCached ==
    \A nid \in DOMAIN runs.fwd :
        ZeroCandidates(nid) =>
            /\ runs.fwd[nid].result.ranked = <<>>
            /\ runs.fwd[nid].result.honorable_mentions = <<>>
            /\ ForwardRows(nid) # {}
            /\ \A r \in ForwardRows(nid) : r.results_json = runs.fwd[nid].result

\* an opening without candidates has been run, and so has one with candidates
C10_Witness ==
    /\ \E nid \in DOMAIN runs.fwd : ZeroCandidates(nid)
    /\ \E nid \in DOMAIN runs.fwd : ~ZeroCandidates(nid) /\ runs.fwd[nid].result.ranked # <<>>

-----------------------------------------------------------------------------
(* Claims on the reverse pipeline (SpecReverse) *)

\* the openings that match the filters of a cache key, for its person
ReverseMatching(key) ==
    RankBase(DbOf, rank_params(key[1], key[2].media_type_filter,
                               key[2].qualifications_filter, key[2].include_archived))

SameProject(n, pid) == project_needs[n].project_id = pid

\* C7: the output of the reverse pipeline has at most one entry per project,
\* and the entry of a project is a matching opening of it whose similarity to
\* the person is the highest among the project's matching openings.
C7_OneEntryPerProjectBestOpening ==
    \A key \in DOMAIN runs.rev :
        LET ranked == runs.rev[key].result.ranked
        IN /\ \A i, j \in DOMAIN ranked :
                 ranked[i].project_id = ranked[j].project_id => i = j
           /\ \A i \in DOMAIN ranked :
                 /\ ranked[i].need_id \in ReverseMatching(key)
                 /\ SameProject(ranked[i].need_id, ranked[i].project_id)
                 /\ ranked[i].sim = RankSim(DbOf, key[1], ranked[i].need_id)
                 /\ \A n \in ReverseMatching(key) :
                       SameProject(n, ranked[i].project_id) =>
                           RankSim(DbOf, key[1], n) <= ranked[i].sim

\* a project with three matching openings, one of them less similar than the
\* entry kept and one as similar as it
C7_Witness ==
    \E key \in DOMAIN runs.rev :
        \E i \in DOMAIN runs.rev[key].result.ranked :
            LET e == runs.rev[key].result.ranked[i]
                mine == {n \in ReverseMatching(key) : SameProject(n, e.project_id)}
            IN /\ Cardinality(mine) = 3
               /\ \E n \in mine : RankSim(DbOf, key[1], n) < e.sim
               /\ \E n \in mine : n # e.need_id /\ RankSim(DbOf, key[1], n) = e.sim

-----------------------------------------------------------------------------
(* Claims on the backfill batch (SpecBackfill) *)

IsEligible(n, ts) ==
    /\ project_needs[n].status = "Active"
    /\ projects[project_needs[n].project_id].tracking_status \in ts

IsCached(n) == \E r \in need_recommendations : r.need_id = n

\* the frame of a backfill_needs call that is not a dry run and skips the
\* openings already cached
PlainBatch == ~batch.payload.dry_run /\ ~batch.payload.reprocess_existing

\* C2: such a batch selects at most limit openings, all of them active, in the
\* given tracking statuses and without a cached result; when every run
\* succeeds it reports processed = generated = the number selected,
\* skipped = 0 and remaining_after = remaining_before - generated.
C2_BackfillSelectsUncachedAndCounts ==
    /\ (batch.pc = "loop" /\ batch.i = 1 /\ PlainBatch) =>
          /\ Len(batch.need_ids) = Min(batch.payload.limit, batch.remaining_before)
          /\ \A j, k \in DOMAIN batch.need_ids : batch.need_ids[j] = batch.need_ids[k] => j = k
          /\ \A j \in DOMAIN batch.need_ids :
                /\ IsEligible(batch.need_ids[j], batch.payload.tracking_statuses)
                /\ ~IsCached(batch.need_ids[j])
    /\ (batch.pc = "returned" /\ PlainBatch /\ batch.errors = <<>>) =>
          LET summary == batch.response[1].summary
          IN /\ summary.processed = Len(batch.need_ids)
             /\ summary.generated = Len(batch.need_ids)
             /\ summary.skipped = 0
             /\ summary.remaining_before = batch.remaining_before
             /\ summary.remaining_after = summary.remaining_before - summary.generated

\* four eligible openings of which one is already cached: two are processed,
\* one remains
C2_Witness ==
    /\ batch.pc = "returned"
    /\ PlainBatch
    /\ batch.errors = <<>>
    /\ Len(batch.need_ids) = 2
    /\ batch.response[1].summary.remaining_after = 1
    /\ \E n \in DOMAIN project_needs :
          /\ IsEligible(n, batch.payload.tracking_statuses)
          /\ n \in DOMAIN runs.fwd
          /\ \A j \in DOMAIN batch.need_ids : batch.need_ids[j] # n

\* the error entries of the runs that failed, in the order of the runs
ErrorsOf(log) ==
    LET failed == SelectSeq(log, LAMBDA e : e.raised # None)
    IN [j \in 1..Len(failed) |-> [need_id |-> failed[j].need_id, error |-> failed[j].raised]]

C4_EarlierRowsSurviveFailure ==
    \A j, k \in DOMAIN batch.log :
        (j < k /\ batch.log[j].raised = None /\ batch.log[k].raised # None) =>
            \E r \in need_recommendations :
                /\ r.need_id = batch.log[j].need_id
                /\ r.results_json = batch.log[j].result

\* the second run of a batch failed on a database statement, after a first run
\* that ranked candidates; the batch is over
C4_Witness ==
    /\ batch.pc \in {"returned", "raised"}
    /\ Len(batch.log) = 2
    /\ batch.log[1].raised = None
    /\ batch.log[1].result.ranked # <<>>
    /\ batch.log[2].raised = "knn"

-----------------------------------------------------------------------------
(* Claims on the Ranker (SpecRank) *)

\* the place of pool row k in a stable sort by descending similarity
RankOf(pool, k) ==
    1 + Cardinality({j \in 1..Len(pool) : pool[j].sim > pool[k].sim})
      + Cardinality({j \in 1..(k - 1) : pool[j].sim = pool[k].sim})

PoolPositive(k) ==
    /\ args[1][k].creative_id \in DOMAIN args[3]
    /\ args[3][args[1][k].creative_id].any_positive

\* pool row k is ranked 11th or lower and has positive feedback
Qualifies(k) == RankOf(args[1], k) > TopK /\ PoolPositive(k)

QualifiedBefore(k) ==
    Cardinality({j \in 1..Len(args[1]) :
                    Qualifies(j) /\ RankOf(args[1], j) < RankOf(args[1], k)})

\* C5: the primary list is the first min(10, pool size) rows of the pool in
\* descending similarity, rows of equal similarity in their pool order.
C5_PrimaryListIsStableTop10 ==
    ret # <<>> =>
        LET pool == args[1]
            top == ret[1].top10
        IN /\ Len(top) = Min(10, Len(pool))
           /\ \A k \in 1..Len(pool) :
                 RankOf(pool, k) <= 10 =>
                    /\ top[RankOf(pool, k)].creative_id = pool[k].creative_id
                    /\ top[RankOf(pool, k)].score = pool[k].sim

\* a pool of more than 10 rows, out of order, with a tie inside the top 10
C5_Witness ==
    /\ ret # <<>>
    /\ Len(args[1]) > 10
    /\ \E i, j \in 1..Len(args[1]) : i < j /\ args[1][i].sim < args[1][j].sim
    /\ \E i, j \in 1..Len(ret[1].top10) : i < j /\ ret[1].top10[i].score = ret[1].top10[j].score

\* C6: honorable mentions are the first 5 (or all, if fewer) of the rows ranked
\* 11th or lower that have any_positive, in descending-similarity order.
C6_HonorableMentions ==
    ret # <<>> =>
        LET pool == args[1]
            hon == ret[1].honorable
        IN /\ Len(hon) = Min(5, Cardinality({k \in 1..Len(pool) : Qualifies(k)}))
           /\ \A k \in 1..Len(pool) :
                 (Qualifies(k) /\ QualifiedBefore(k) < 5) =>
                    hon[QualifiedBefore(k) + 1].creative_id = pool[k].creative_id
           /\ \A i \in 1..Len(hon) : \A j \in 1..Len(ret[1].top10) :
                 hon[i].creative_id # ret[1].top10[j].creative_id

\* more than 5 rows qualify, and a row of the top 10 has positive feedback too
C6_Witness ==
    /\ ret # <<>>
    /\ Cardinality({k \in 1..Len(args[1]) : Qualifies(k)}) > 5
    /\ \E k \in 1..Len(args[1]) : RankOf(args[1], k) <= 10 /\ PoolPositive(k)
    /\ \E k \in 1..Len(args[1]) : RankOf(args[1], k) > 10 /\ ~PoolPositive(k)

-----------------------------------------------------------------------------
(* Claims on the Eligibility Filter (SpecElig) *)

Bands == {"upper", "mid_upper", "mid", "lower_mid", "lower"}

\* the band ranges as the specification states them, in points
InBand(band, level) ==
    /\ level # NullLvl
    /\ CASE band = "upper" -> level >= 2 * 6
         [] band = "mid_upper" -> level >= 2 * 3
         [] band = "mid" -> level >= 2 * 3 /\ level <= 2 * 6
         [] band = "lower_mid" -> level <= 2 * 6
         [] band = "lower" -> level <= 2 * 4

IsCandidate(cid) == \E r \in ret[1] : r.creative_id = cid

\* what the specification asks of a writer, the seniority range apart
WriterBase(c, p) ==
    /\ c.client_status = "client"
    /\ c.is_writer = T3
    /\ (p.media_type = "TV Series" => c.tv_acceptable = T3)

\* C8: for a writer opening with one of the five bands, a person is a candidate
\* iff they are a client, a writer, TV-acceptable when the project is a TV
\* series, and their seniority lies in the band's inclusive range.
C8_BandedWriterEligibility ==
    (ret # <<>> /\ args[2].is_writer /\ args[2].writer_band \in Bands) =>
        \A cid \in DOMAIN creatives :
            IsCandidate(cid) <=>
                /\ WriterBase(creatives[cid], projects[project_needs[args[1]].project_id])
                /\ InBand(args[2].writer_band, creatives[cid].writer_level)

\* C9: for a writer opening whose label has none of the five band suffixes,
\* every client writer (TV-acceptable where the project is a TV series) is a
\* candidate, whatever their seniority.
C9_UnbandedWriterHasNoSeniorityConstraint ==
    (ret # <<>> /\ args[2].is_writer /\ args[2].writer_band = None) =>
        \A cid \in DOMAIN creatives :
            WriterBase(creatives[cid], projects[project_needs[args[1]].project_id])
                => IsCandidate(cid)

\* C8 fails here: the project's media type is NULL, and a client writer inside
\* the band who is not TV-acceptable is left out
C8_Witness ==
    /\ ret # <<>>
    /\ args[2].is_writer
    /\ args[2].writer_band \in Bands
    /\ projects[project_needs[args[1]].project_id].media_type = NullTxt
    /\ \E cid \in DOMAIN creatives :
          /\ WriterBase(creatives[cid], projects[project_needs[args[1]].project_id])
          /\ InBand(args[2].writer_band, creatives[cid].writer_level)
          /\ ~IsCandidate(cid)

\* C9 fails here: a client writer on a feature, and a writer opening without a
\* band, for which nobody is a candidate
C9_Witness ==
    /\ ret # <<>>
    /\ args[2].is_writer
    /\ args[2].writer_band = None
    /\ projects[project_needs[args[1]].project_id].media_type = "Feature"
    /\ \E cid \in DOMAIN creatives :
          /\ WriterBase(creatives[cid], projects[project_needs[args[1]].project_id])
          /\ creatives[cid].writer_level = Lv(5)
          /\ ~IsCandidate(cid)

-----------------------------------------------------------------------------
(* Claims on one call of a pipeline (SpecPipeline) *)

\* the call returned (it did not raise)
CallReturned(direction) == ret # <<>> /\ args[1] = direction /\ ret[1].raised = None

\* the rows of the session's view of each cache that hold the returned result
ForwardRowsHolding(need_id, result) ==
    {r \in ViewOf(DbOf).nr : r.need_id = need_id /\ r.results_json = result}

ReverseRowsHolding(creative_id, result) ==
    {r \in ViewOf(DbOf).cnr : r.creative_id = creative_id /\ r.results_json = result}

\* C11: a run on an opening id (forward) or a person id (reverse) that does not
\* exist returns an empty ranking that is not marked as an error, and that
\* empty result is written to the cache.
C11_MissingSubjectEmptyResultCached ==
    /\ (CallReturned("forward") /\ args[2] \notin DOMAIN project_needs) =>
          /\ ret[1].result.ranked = <<>>
          /\ "error" \notin DOMAIN ret[1].result
          /\ ForwardRowsHolding(args[2], ret[1].result) # {}
    /\ (CallReturned("reverse") /\ args[2] \notin DOMAIN creatives) =>
          /\ ret[1].result.ranked = <<>>
          /\ "error" \notin DOMAIN ret[1].result
          /\ ReverseRowsHolding(args[2], ret[1].result) # {}

\* C11 fails here: the reverse pipeline on a person id that does not exist
\* returned a result marked as an error and wrote no row
C11_Witness ==
    /\ CallReturned("reverse")
    /\ args[2] \notin DOMAIN creatives
    /\ ret[1].result.error = "Creative not found"
    /\ ViewOf(DbOf).cnr = {}

\* the person of a reverse call has a row in creatives and none in creative_embeddings
NoStoredEmbedding ==
    /\ ret # <<>>
    /\ args[1] = "reverse"
    /\ args[2] \in DOMAIN creatives
    /\ args[2] \notin DOMAIN creative_embeddings

\* C12: for a person without a stored embedding the reverse pipeline returns
\* (it does not raise) a result whose error field is the no-embedding message,
\* which no run that ranked (with an empty ranking or not) carries, and it
\* leaves the reverse cache as it was.
C12_NoEmbeddingIsExplicitError ==
    /\ NoStoredEmbedding =>
          /\ ret[1].raised = None
          /\ "error" \in DOMAIN ret[1].result
          /\ ret[1].result.error = NoEmbedding
          /\ ret[1].result.ranked = <<>>
          /\ ViewOf(DbOf).cnr = {}
          /\ creative_need_recommendations = {}
    /\ (CallReturned("reverse") /\ args[2] \in DOMAIN creative_embeddings) =>
          /\ "error" \notin DOMAIN ret[1].result
          /\ ViewOf(DbOf).cnr # {}

\* the call for the person without an embedding has returned
C12_Witness ==
    /\ NoStoredEmbedding
    /\ ret[1].raised = None
    /\ ret[1].result.ranked = <<>>

-----------------------------------------------------------------------------
(* Claims on the lookup by filter signature (SpecLookup) *)

LookupDone == ret # <<>> /\ args[1] = "lookup"

\* the media types and the role buckets whose flag a rank-now body sets
MediaFlagsOf(body) ==
    {m \in Elems(MEDIA_ORDER) : \/ m = "Feature" /\ body.mt_feature
                                \/ m = "TV Series" /\ body.mt_tv
                                \/ m = "Play" /\ body.mt_play
                                \/ m = "Other" /\ body.mt_other}

QualFlagsOf(body) ==
    {q \in Elems(QUAL_ORDER) : \/ q = "OWA" /\ body.q_owa
                               \/ q = "ODA" /\ body.q_oda
                               \/ q = "Staff Writer" /\ body.q_staff
                               \/ q = "Director" /\ body.q_dir}

\* the lookup request names the flags of the rank-now body, and its option
SameFlags(body, lookup) ==
    /\ Elems(lookup.media_type_filter) = MediaFlagsOf(body)
    /\ Elems(lookup.qualifications_filter) = QualFlagsOf(body)
    /\ lookup.include_archived = body.include_archived

\* the response carries the ranking and the count of a stored result
Carries(response, result) ==
    /\ response.status = 200
    /\ response.body.ranked = result.ranked
    /\ response.body.considered_count = result.considered_count
    /\ response.body.creative_id = result.creative_id

\* C13: once a rank-now of a person with flags F has completed, a lookup of
\* that person with the filter lists of the same flags answers with the
\* result cached for that run's key, not with not-found; whichever flags are
\* set, none included.
C13_LookupFindsRankedFlags ==
    LookupDone =>
        \A k \in DOMAIN runs.req :
            (k[1] = args[2] /\ SameFlags(k[2], args[3])) =>
                Carries(ret[1], runs.rev[<<k[1], runs.req[k].filters>>].result)

\* C13 fails here: a rank-now without any media flag has stored a ranking of
\* two projects, and the lookup with the empty media list answers not-found
C13_Witness ==
    /\ LookupDone
    /\ ret[1] = HTTP404
    /\ args[3].media_type_filter = <<>>
    /\ \E k \in DOMAIN runs.req :
          /\ k[1] = args[2]
          /\ SameFlags(k[2], args[3])
          /\ Len(runs.req[k].ranked) = 2

\* the canonical parameter set a lookup request asks for
RequestedParams(lookup) ==
    [media_type_filter |-> SelectSeq(MEDIA_ORDER, LAMBDA m : m \in Elems(lookup.media_type_filter)),
     qualifications_filter |->
         SelectSeq(QUAL_ORDER, LAMBDA q : q \in Elems(lookup.qualifications_filter)),
     include_archived |-> lookup.include_archived]

\* C14: a lookup answers with a cached result only if a row is stored for the
\* person under exactly the requested canonical parameter set (media types,
\* role buckets, include-archived), and then with that row's result.
C14_LookupExactParameterSet ==
    (LookupDone /\ ret[1].status = 200) =>
        \E r \in creative_need_recommendations :
            /\ r.creative_id = args[2]
            /\ r.params_json = RequestedParams(args[3])
            /\ Carries(ret[1], r.results_json)

\* C14 fails here: the only row of the person was computed with archived
\* projects included, and a lookup that excludes them is answered with it
C14_Witness ==
    /\ LookupDone
    /\ ret[1].status = 200
    /\ ~args[3].include_archived
    /\ ret[1].body.filters.include_archived
    /\ \A r \in creative_need_recommendations :
          r.creative_id = args[2] => r.params_json.include_archived
    /\ \E i \in DOMAIN ret[1].body.ranked :
          projects[ret[1].body.ranked[i].project_id].tracking_status = "Archived"

\* list holds the members of set that order knows, once each, in the order of order
IsCanonical(list, order, set) ==
    /\ Elems(list) = set \cap Elems(order)
    /\ \A i, j \in DOMAIN list : i < j => Position(order, list[i]) < Position(order, list[j])

\* the set a filter list names: every member when the list is empty
NamedSet(filter, order) == IF filter = <<>> THEN Elems(order) ELSE Elems(filter)

-----------------------------------------------------------------------------
(* Claims on get-latest (SpecLatest) *)

\* C16: get-latest of an opening answers not-found exactly when no forward run
\* of that opening has been persisted, and otherwise with the full result the
\* most recent forward run of the opening returned.
C16_LatestIsLastRunOrNotFound ==
    (ret # <<>> /\ args[1] = "latest") =>
        /\ ret[1].status = 404 <=> args[2] \notin DOMAIN runs.fwd
        /\ args[2] \in DOMAIN runs.fwd =>
              ret[1] = [status |-> 200, body |-> runs.fwd[args[2]].result]

\* the opening was run twice and the second run returned another result than
\* the first; get-latest has answered
C16_Witness ==
    /\ ret # <<>>
    /\ args[1] = "latest"
    /\ args[2] \in DOMAIN runs.fwd
    /\ runs.fwd[args[2]].n = 2
    /\ runs.fwd[args[2]].first # runs.fwd[args[2]].result
    /\ ret[1].status = 200
    /\ ret[1].body.ranked # <<>>

-----------------------------------------------------------------------------
(* Claims on embed_texts (SpecEmbed) *)

\* the batch that holds text k (1-based) of a call with this batch size
BatchOf(k, batch_size) == ((k - 1) \div batch_size) + 1

\* every attempt of the provider failed for the batch
BatchFailed(b) == args[3][b] = EmbedAttempts

\* C17: whichever batches the provider fails on every attempt, embed_texts
\* returns one vector per input text, in input order: the fallback vector
\* derived from the text for the texts of a failed batch, the provider's
\* vector for the others.
C17_FallbackOneVectorPerText ==
    ret # <<>> =>
        /\ Len(ret[1]) = Len(args[1])
        /\ \A k \in 1..Len(args[1]) :
              ret[1][k] = IF BatchFailed(BatchOf(k, args[2]))
                          THEN FallbackVector(args[1][k])
                          ELSE ProviderVector(args[1][k])

\* three texts in two batches: the first batch of two texts failed every
\* attempt, the second succeeded after failed attempts
C17_Witness ==
    /\ ret # <<>>
    /\ Len(args[1]) = 3
    /\ args[1][1] # args[1][2]
    /\ args[2] = 2
    /\ BatchFailed(1)
    /\ args[3][2] = EmbedAttempts - 1
    /\ ret[1][1] # ret[1][2]

-----------------------------------------------------------------------------
(* C18 *)

HashMatches(n) ==
    /\ n \in DOMAIN need_embeddings
    /\ n \in DOMAIN project_needs
    /\ need_embeddings[n].context_hash = sha256(build_text(project_needs[n].project_id))

\* C18: an opening whose stored content hash is the hash of its current source
\* text is not re-embedded: no step rewrites its stored vector
C18_NoReembedWhenHashMatches ==
    [][\A n \in DOMAIN need_embeddings :
          HashMatches(n) => need_embeddings'[n] = need_embeddings[n]]_vars

\* an opening whose row was up to date and held the provider's vector now
\* holds the fallback vector of the same text, after a run of the opening
C18_Witness ==
    \E n \in DOMAIN need_embeddings \ {1, 2} :
       /\ HashMatches(n)
       /\ n \in DOMAIN runs.fwd
       /\ need_embeddings[n].embedding =
              FallbackVector(build_text(project_needs[n].project_id))

-----------------------------------------------------------------------------
(* C19 *)

\* the candidates of the run that have an embedding row
Embedded == ret[1].filtered_ids \cap DOMAIN creative_embeddings

SimOf(c) == 1 - CosineDistance(creative_embeddings[c], need_embeddings[args[1]].embedding)

PoolIds == {ret[1].knn[i].creative_id : i \in 1..Len(ret[1].knn)}

-----------------------------------------------------------------------------
(* C20 *)

\* the cache rows of the key the two requests share
KeyRows == {r \in need_recommendations : r.need_id = args[1] /\ r.params_json = EmptyParams}

BothDone == \A p \in Procs : batch[p].pc = "done"

\* C20: however two concurrent runs of the same opening and parameter set
\* interleave, the cache never holds two rows for the key, and once both
\* have returned it holds exactly one, whose payload is the whole result
\* one of the two returned
C20_ConcurrentRunsLeaveOneWholeRow ==
    /\ Cardinality(KeyRows) <= 1
    /\ BothDone =>
          /\ Cardinality(KeyRows) = 1
          /\ \E p \in Procs : \A r \in KeyRows : r.results_json = ret[p][1]

\* the two runs overlapped and returned different results; the row holds the
\* result of the one that began first, which committed last
C20_Witness ==
    /\ BothDone
    /\ ret[1][1] # ret[2][1]
    /\ \E p \in Procs :
          /\ batch[p].overlap
          /\ \A r \in KeyRows : r.results_json = ret[Other(p)][1]

-----------------------------------------------------------------------------
(* C21 *)

ReverseReturned ==
    /\ args # <<>>
    /\ args[1] = "reverse"
    /\ ret[1].raised = None

\* the media type a project's media_type counts as in the request
MediaBucket(m) == IF m \in {"Feature", "TV Series", "Play"} THEN m ELSE "Other"

\* the labels the requested role buckets stand for, for creative cid
BucketLabels(quals_filter, cid) ==
    (IF "OWA" \in Elems(quals_filter) THEN {L_OWA} ELSE {})
    \cup (IF "ODA" \in Elems(quals_filter) THEN {L_ODA} ELSE {})
    \cup (IF "Staff Writer" \in Elems(quals_filter)
          THEN Elems(writer_quals_for_level(creatives[cid].writer_level)) ELSE {})
    \cup (IF "Director" \in Elems(quals_filter)
          THEN Elems(director_quals(creatives[cid].has_directed_feature = T3)) ELSE {})

EntryMatches(e, cid, media_filter, quals_filter) ==
    /\ e.need_id \in DOMAIN project_needs
    /\ project_needs[e.need_id].status = "Active"
    /\ MediaBucket(projects[project_needs[e.need_id].project_id].media_type)
          \in Elems(media_filter)
    /\ project_needs[e.need_id].qualifications \in BucketLabels(quals_filter, cid)

\* C21: every entry the reverse pipeline returns is an active opening whose
\* project's media type is among the requested media types and whose label
\* is in the expansion of the requested role buckets
C21_EntriesMatchRequestedFilters ==
    ReverseReturned =>
       \A i \in 1..Len(ret[1].result.ranked) :
          EntryMatches(ret[1].result.ranked[i], args[2], args[3], args[4])

\* lines 90-91: a request that names no media type, or no role bucket, is
\* taken to name them all
Effective(filter, order) == IF filter = <<>> THEN order ELSE filter

\* C21, amended: every entry the reverse pipeline returns is an active
\* opening whose project's media type is among the requested media types
\* (all four when none is requested) and whose label is in the expansion of
\* the requested role buckets (all four when none is requested)
C21_EntriesMatchEffectiveFilters ==
    ReverseReturned =>
       \A i \in 1..Len(ret[1].result.ranked) :
          EntryMatches(ret[1].result.ranked[i], args[2],
                       Effective(args[3], MEDIA_ORDER), Effective(args[4], QUAL_ORDER))

\* a run with role buckets but no media type requested that returned
\* entries, and the store holds an active opening of another label
C21_Witness ==
    /\ ReverseReturned
    /\ args[3] = <<>>
    /\ args[4] # <<>>
    /\ ret[1].result.ranked # <<>>
    /\ \E n \in DOMAIN project_needs :
          /\ project_needs[n].status = "Active"
          /\ project_needs[n].qualifications \notin BucketLabels(args[4], args[2])

-----------------------------------------------------------------------------
(* C22 *)

\* a batch (the router's loop or the background task) about to run an opening
BatchTurn ==
    /\ batch.pc \in {"loop", "task"}
    /\ batch.i <= Len(batch.need_ids)

\* the session as a request that processes the opening alone finds it
AloneDb == [DbOf EXCEPT !.aborted = FALSE, !.tx = <<>>]

SameOutcome(a, b) == a.raised = b.raised /\ a.result = b.result

\* C22: whatever happened to the openings before it in the batch, the run of
\* the next opening has the outcome it would have if processed alone
C22_BatchRunsIndependent ==
    BatchTurn =>
       \A ch \in BatchChoices :
          SameOutcome(run_pipeline(DbOf, batch.need_ids[batch.i], ch),
                      run_pipeline(AloneDb, batch.need_ids[batch.i], ch))

\* the router's loop is about to run an opening after the run of an earlier
\* opening of the batch failed on a database statement
C22_Witness ==
    /\ batch.pc = "loop"
    /\ batch.i <= Len(batch.need_ids)
    /\ \E k \in 1..Len(batch.log) : batch.log[k].raised = "knn"
    /\ session.aborted

-----------------------------------------------------------------------------
(* C23 *)

\* C23: while a call of the embedding provider is in flight, the session
\* holds no uncommitted write
C23_NoExternalCallWithUncommittedWrites ==
    batch.pc = "calling" => session.tx = <<>>

\* the provider is being called for the second row of a rebuild, the first
\* row's upsert not yet committed
C23_Witness ==
    /\ batch.pc = "calling"
    /\ batch.i = 2
    /\ session.tx # <<>>
    /\ batch.rows[1] \in DOMAIN session.tx[1].ne
    /\ batch.rows[1] \notin DOMAIN need_embeddings

-----------------------------------------------------------------------------
(* C24 *)

\* a rank-now request without refresh, for a person who has credits, answered
RankNowAnswered ==
    /\ args # <<>>
    /\ args[1] = "rank"
    /\ ~args[3].refresh_embedding
    /\ _has_any_credit(args[2])
    /\ ret[1].status = 200

\* C24: the response to a rank-now request without refresh, for a person who
\* has credits, does not carry the no-embedding error: a missing embedding is
\* rebuilt and the pipeline re-run
C24_RetryClearsNoEmbeddingError ==
    RankNowAnswered =>
       ("error" \in DOMAIN ret[1].body => ret[1].body.error # NoEmbedding)

\* the person has credits and no stored embedding, and the response carries
\* the no-embedding error
C24_Witness ==
    /\ RankNowAnswered
    /\ args[2] \notin DOMAIN creative_embeddings
    /\ "error" \in DOMAIN ret[1].body
    /\ ret[1].body.error = NoEmbedding

-----------------------------------------------------------------------------
(* C25 *)

\* the waits after the first, second, ... failed attempt of a batch, in seconds
Backoff == <<1, 2, 4, 8, 8>>

\* C25: for each batch, embed_texts calls the provider at most 5 times, calls
\* no more after the first success, and waits min(2^(k-1), 8) seconds after
\* the k-th failed attempt
C25_CappedExponentialBackoff ==
    ret # <<>> =>
       \A b \in 1..Len(ret[2]) :
          LET calls == ret[2][b]
          IN /\ Len(calls) <= 5
             /\ Len(calls) = Min(args[3][b] + 1, 5)
             /\ \A k \in 1..Len(calls) :
                   /\ calls[k].ok => k = Len(calls)
                   /\ calls[k].ok = (k > args[3][b])
                   /\ ~calls[k].ok => calls[k].sleep = Backoff[k]

\* one batch succeeded at its second attempt, another failed all five
C25_Witness ==
    /\ ret # <<>>
    /\ Len(ret[2]) >= 2
    /\ \E b \in 1..Len(ret[2]) : Len(ret[2][b]) = 2 /\ ret[2][b][2].ok
    /\ \E b \in 1..Len(ret[2]) : Len(ret[2][b]) = 5 /\ ~ret[2][b][5].ok

-----------------------------------------------------------------------------
(* C26 *)

\* C26: no vector embed_texts returns to the rebuild, and no vector the
\* rebuild writes, is all-zero
C26_NoZeroVector ==
    ret # <<>> =>
       /\ \A k \in 1..Len(ret[1].embedded) : ret[1].embedded[k] # 0
       /\ ret[1].emb # 0

\* a client without credits and without interests: the written vector is zero
C26_Witness ==
    /\ ret # <<>>
    /\ args[1] = <<>>
    /\ args[2] = <<>>
    /\ ret[1].emb = 0

-----------------------------------------------------------------------------
(* C27 *)

IdsOf(entries) == [i \in 1..Len(entries) |-> entries[i].creative_id]

\* other availability and feedback maps for a pool of n rows: empty maps,
\* everyone unavailable, and everyone with the same feedback
OtherAvailability(n) == {<<>>, [i \in 1..n |-> "unavailable"]}

OtherFeedback(n) ==
    {<<>>} \cup {FeedbackOf(n, [s \in FbSlots |-> f]) : f \in {"positive", "not positive"}}

\* C27: ranking the same similarity pool with other availability and feedback
\* maps gives the same sequence of person ids in the top 10, and the score of
\* an entry is its similarity
C27_TopTenIgnoresFeedbackAndAvailability ==
    ret # <<>> =>
       /\ \A i \in 1..Len(ret[1].top10) : ret[1].top10[i].score = ret[1].top10[i].sim
       /\ \A availability_map \in OtherAvailability(Len(args[1])) :
          \A feedback_map \in OtherFeedback(Len(args[1])) :
             IdsOf(rank_with_flags(args[1], availability_map, feedback_map).top10)
                = IdsOf(ret[1].top10)

\* in the top 10 an unavailable person without positive feedback stands
\* before an available person with positive feedback and a lower similarity,
\* and more than 10 were ranked
C27_Witness ==
    /\ ret # <<>>
    /\ Len(args[1]) > 10
    /\ \E i, j \in 1..Len(ret[1].top10) :
          /\ i < j
          /\ ret[1].top10[i].sim > ret[1].top10[j].sim
          /\ ~ret[1].top10[i].feedback_summary.any_positive
          /\ ret[1].top10[i].availability = "unavailable"
          /\ ret[1].top10[j].feedback_summary.any_positive
          /\ ret[1].top10[j].availability = "available"

(* C28: forward and reverse direction on writer seniority *)

\* a client writer on a feature: the Eligibility Filter decides on seniority alone
ScoredWriters ==
    {cid \in DOMAIN creatives :
        /\ creatives[cid].writer_level # NullLvl
        /\ creatives[cid].client_status = "client"
        /\ creatives[cid].is_writer = T3}

\* C28: for every writer seniority score and every banded writer label, the
\* reverse staff-writer expansion for the score contains the label iff the
\* Eligibility Filter admits a writer with that score to an opening carrying
\* the label.
C28_ForwardAndReverseAgreeOnSeniority ==
    (/\ ret # <<>>
     /\ args[2].is_writer
     /\ args[2].writer_band \in Bands
     /\ projects[project_needs[args[1]].project_id].media_type = "Feature") =>
        \A cid \in ScoredWriters :
            (project_needs[args[1]].qualifications
                \in Elems(writer_quals_for_level(creatives[cid].writer_level)))
            <=> IsCandidate(cid)

\* C28 fails here: a writer of level 3 is admitted to a "Writer (Mid)" opening
\* on a feature, and the reverse expansion for level 3 has no "Writer (Mid)"
C28_Witness ==
    /\ ret # <<>>
    /\ projects[project_needs[args[1]].project_id].media_type = "Feature"
    /\ project_needs[args[1]].qualifications = L_WriterMid
    /\ \E cid \in ScoredWriters :
          /\ creatives[cid].writer_level = Lv(3)
          /\ IsCandidate(cid)
          /\ L_WriterMid \notin Elems(writer_quals_for_level(Lv(3)))

-----------------------------------------------------------------------------
(* SpecProgress: POST /backfill/needs repeated with one payload, every run *)
(* of the pipeline succeeding, nothing else writing to the store          *)

MaxBackfills == 6

ProgressPayloads ==
    [tracking_statuses : {DefaultStatuses, {"Active"}}, limit : 1..MaxLimit,
     dry_run : {FALSE}, reprocess_existing : BOOLEAN]

\* the first call chooses the payload, every later call repeats it
ProgressBegin ==
    /\ batch.pc = "idle"
    /\ clock < MaxBackfills
    /\ \E payload \in (IF batch.payload = NoPayload THEN ProgressPayloads
                       ELSE {batch.payload}) : backfill_begin(payload)

ProgressItem ==
    /\ batch.pc = "loop"
    /\ batch.i <= Len(batch.need_ids)
    /\ \E ch \in Choices({None}, {TRUE}, {"text"}, {ById}) : backfill_item(ch)

ProgressEnd ==
    /\ batch.pc = "loop"
    /\ batch.i > Len(batch.need_ids)
    /\ backfill_end

\* the response has left; the caller keeps the payload for the next call
ProgressReturn ==
    /\ batch.pc \in {"returned", "raised"}
    /\ batch' = Frame("idle", batch.payload, 0, <<>>, <<>>)
    /\ UNCHANGED <<world, need_embeddings, need_recommendations,
                   creative_need_recommendations, clock, session, runs, args, ret>>

NextProgress ==
    \/ ProgressBegin
    \/ ProgressItem
    \/ ProgressEnd
    \/ ProgressReturn

\* run_pipeline returns or raises, so a turn of the loop can always be taken
ItemEnabled == batch.pc = "loop" /\ batch.i <= Len(batch.need_ids)

\* the handler runs to its response and the caller calls again; weak fairness
\* of the loop's turn is written out with ItemEnabled
ProgressFairness ==
    /\ WF_batch(ProgressBegin)
    /\ WF_batch(ProgressEnd)
    /\ WF_batch(ProgressReturn)
    /\ ([]<>(~ItemEnabled) \/ []<><<ProgressItem>>_batch)

SpecProgress == InitCache /\ [][NextProgress]_vars /\ ProgressFairness

(* C29: progress of the repeated backfill *)

\* the openings the payload's tracking statuses make eligible
EligibleNeeds == RemainingNeedsCachedToo(DbOf, batch.payload.tracking_statuses, TRUE)

AllProcessed == \A n \in EligibleNeeds : n \in DOMAIN runs.fwd

\* the payloads the claim speaks of
ProgressClaimed ==
    /\ batch.payload # NoPayload
    /\ batch.payload.reprocess_existing =>
           Cardinality(EligibleNeeds) > batch.payload.limit

\* without reprocessing, every eligible opening is processed in the end
ProgressWithoutReprocessing ==
    (batch.payload # NoPayload /\ ~batch.payload.reprocess_existing) ~> AllProcessed

\* with reprocessing, every call takes the same first openings
ReprocessingStaysAtTheFront ==
    (batch.payload # NoPayload /\ batch.payload.reprocess_existing) =>
        DOMAIN runs.fwd \subseteq
            Elems(SelectNeeds(DbOf, batch.payload.tracking_statuses, TRUE,
                              batch.payload.limit))

\* the openings the call has processed for the first time
FirstTimers == {n \in Elems(batch.need_ids) : n \in DOMAIN runs.fwd /\ runs.fwd[n].n = 1}

\* C29: if every pipeline run succeeds and nothing else changes the store,
\* repeating the backfill call with the same tracking statuses and a fixed
\* limit eventually processes every eligible opening, without reprocessing
\* and, when more openings are eligible than the limit, with reprocessing.
\* The call's selection is a function of the payload and the store, so the
\* repetition reaches every opening iff no call returns without a first-time
\* opening while an eligible opening is still unprocessed.
C29_BackfillProcessesEveryEligibleOpening ==
    (batch.pc = "returned" /\ ProgressClaimed /\ FirstTimers = {}) => AllProcessed

\* C29 fails here: the second call with reprocess_existing has returned the
\* ids of the first, and an eligible opening has never been processed
C29_Witness ==
    /\ batch.pc = "returned"
    /\ batch.payload.reprocess_existing
    /\ Cardinality(EligibleNeeds) > batch.payload.limit
    /\ batch.need_ids # <<>>
    /\ \A n \in Elems(batch.need_ids) : runs.fwd[n].n = 2
    /\ ~AllProcessed

(* C30: a failed forward run and the opening's cached row *)

\* the batch has just logged a run that raised
FailedRun ==
    /\ Len(batch'.log) = Len(batch.log) + 1
    /\ batch'.log[Len(batch'.log)].raised # None

RowsOf(rows, need_id) == {r \in rows : r.need_id = need_id}

\* C30: a forward run that fails before its final cache upsert leaves the
\* cached result stored for that opening unchanged, in the committed table and
\* in what the session sees: the row is written only as the last step of a run.
C30_FailedRunLeavesCachedRow ==
    [][FailedRun =>
          LET need_id == batch'.log[Len(batch'.log)].need_id
          IN /\ RowsOf(need_recommendations', need_id) = RowsOf(need_recommendations, need_id)
             /\ RowsOf(ViewOf(DbOf)'.nr, need_id) = RowsOf(ViewOf(DbOf).nr, need_id)]_vars

\* a run has failed on an opening that has a cached result
C30_Witness ==
    /\ batch.pc \in {"loop", "task"}
    /\ batch.log # <<>>
    /\ batch.log[Len(batch.log)].raised # None
    /\ RowsOf(need_recommendations, batch.log[Len(batch.log)].need_id) # {}

====
